---------------------------- MODULE Spec2Model ----------------------------
(***************************************************************************)
(* Model of the Intel ICD pipeline-state compiler (icd/intel/pipeline.c)   *)
(* and the fence wait (icd/intel/fence.c).                                 *)
(*                                                                         *)
(* The build of one graphics pipeline (graphics_pipeline_create) is a      *)
(* state machine whose steps are the function calls of the C code, in the  *)
(* order the code makes them.  The pure parts (the validator, the URB      *)
(* arithmetic, the command buffer sink) are operators, and each is also    *)
(* exercised on its own over a wider range of inputs by a dedicated        *)
(* specification (SpecValidate, SpecUrb, SpecSink, SpecVe, SpecAssemble).  *)
(* intelWaitForFences is a second state machine (SpecFence), one step    *)
(* per iteration of its loop.                                              *)
(*                                                                         *)
(* Bit-sets of the C code (active_shaders, uses, wa_flags) are sets of     *)
(* flag names; x & FLAG is FLAG \in x, x & MASK is x \cap MASK.             *)
(* An assert() that fails is modelled as the abort of the process          *)
(* (pc = "aborted").                                                       *)
(***************************************************************************)
EXTENDS Integers, Sequences, FiniteSets, TLC

VARIABLES
    gpu,          \* pipeline->dev->gpu: [gen, gt]
    chain,        \* the caller's fragment chain (info_), a sequence of nodes
    info,         \* struct intel_pipeline_create_info (the descriptor)
    pipeline,     \* struct intel_pipeline, or NoPipeline before allocation
    pc,           \* position inside graphics_pipeline_create
    ret,          \* the XGL_RESULT local of the running function
    pipeline_ret, \* *pipeline_ret, the caller's output handle
    destroyed,    \* number of pipeline_destroy calls made
    log,          \* the steps executed so far, in order
    urb,          \* the locals of the last URB allocator run
    rsv,          \* the last pipeline_cmd_ptr call: [old, n, ok, ptr]
    fw            \* the arguments and locals of intelWaitForFences

vars == <<gpu, chain, info, pipeline, pc, ret, pipeline_ret, destroyed,
          log, urb, rsv, fw>>

---------------------------------------------------------------------------
(* Results *)

XGL_SUCCESS == "XGL_SUCCESS"
XGL_ERROR_BAD_PIPELINE_DATA == "XGL_ERROR_BAD_PIPELINE_DATA"
XGL_ERROR_OUT_OF_MEMORY == "XGL_ERROR_OUT_OF_MEMORY"
XGL_ERROR_BAD_SHADER == "XGL_ERROR_BAD_SHADER"

(* Shader stage flags of pipeline->active_shaders *)

SHADER_VERTEX_FLAG == "VERTEX"
SHADER_TESS_CONTROL_FLAG == "TESS_CONTROL"
SHADER_TESS_EVAL_FLAG == "TESS_EVAL"
SHADER_GEOMETRY_FLAG == "GEOMETRY"
SHADER_FRAGMENT_FLAG == "FRAGMENT"
SHADER_COMPUTE_FLAG == "COMPUTE"

GraphicsStages ==
    {SHADER_VERTEX_FLAG, SHADER_TESS_CONTROL_FLAG, SHADER_TESS_EVAL_FLAG,
     SHADER_GEOMETRY_FLAG, SHADER_FRAGMENT_FLAG}

Stages == GraphicsStages \cup {SHADER_COMPUTE_FLAG}

(* XGL_PRIMITIVE_TOPOLOGY: the thirteen enumerators pipeline_build_ia     *)
(* knows, and one value outside the enumeration.                          *)

XGL_TOPOLOGY_PATCH == "PATCH"
XGL_TOPOLOGY_TRIANGLE_LIST == "TRIANGLE_LIST"

NonPatchTopologies ==
    {"POINT_LIST", "LINE_LIST", "LINE_STRIP", "TRIANGLE_LIST",
     "TRIANGLE_STRIP", "RECT_LIST", "QUAD_LIST", "QUAD_STRIP",
     "LINE_LIST_ADJ", "LINE_STRIP_ADJ", "TRIANGLE_LIST_ADJ",
     "TRIANGLE_STRIP_ADJ"}

Topologies == NonPatchTopologies \cup {XGL_TOPOLOGY_PATCH}

InvalidTopology == "NOT_A_TOPOLOGY"

(* The value of a zero-filled enum field: XGL_TOPOLOGY_POINT_LIST and     *)
(* XGL_PROVOKING_VERTEX_FIRST are the enumerators 0 of their types.       *)

ZeroTopology == "POINT_LIST"
ZeroProvokingVertex == "FIRST"

(* Capacity of pipeline->cmds, in words. *)
INTEL_PSO_CMD_ENTRIES == 128

(* ARRAY_SIZE(pipeline->vb) *)
INTEL_MAX_VERTEX_BINDING_COUNT == 33

---------------------------------------------------------------------------
(* C integer helpers *)

Max(a, b) == IF a >= b THEN a ELSE b

\* x & ~(m - 1) for a power of two m and x >= 0
MaskDown(x, m) == x - (x % m)

---------------------------------------------------------------------------
(* Command Buffer Sink *)

\* pipeline_cmd_ptr without its capacity check
pipeline_cmd_ptr_unchecked(p, cmd_len) ==
    [ok |-> TRUE, ptr |-> p.cmd_len,
     pipeline |-> [p EXCEPT !.cmd_len = p.cmd_len + cmd_len]]

\* pipeline_cmd_ptr: the window starts at the old cmd_len; the assert is
\* the only check, and it is strict.
pipeline_cmd_ptr(p, cmd_len) ==
    IF p.cmd_len + cmd_len < INTEL_PSO_CMD_ENTRIES
    THEN [ok |-> TRUE, ptr |-> p.cmd_len,
          pipeline |-> [p EXCEPT !.cmd_len = p.cmd_len + cmd_len]]
    ELSE [ok |-> FALSE, ptr |-> p.cmd_len, pipeline |-> p]

\* The record kept of one pipeline_cmd_ptr call.
Reservation(p, cmd_len) ==
    LET r == pipeline_cmd_ptr(p, cmd_len)
    IN  [old |-> p.cmd_len, n |-> cmd_len, ok |-> r.ok, ptr |-> r.ptr]

NoReservation == [old |-> 0, n |-> 0, ok |-> TRUE, ptr |-> 0]

\* An encoder's reserve-and-write: the words go to cmds[ptr .. ptr+n-1].
\* cmds is kept as the sequence of the words written so far.
EmitWords(p, words) ==
    LET r == pipeline_cmd_ptr(p, Len(words))
    IN  IF r.ok
        THEN [ok |-> TRUE,
              pipeline |-> [r.pipeline EXCEPT
                  !.cmds = SubSeq(p.cmds, 1, r.ptr) \o words]]
        ELSE [ok |-> FALSE, pipeline |-> p]

---------------------------------------------------------------------------
(* Stage/Topology Validator *)

\* pipeline_validate with the vertex-stage rule left out
pipeline_validate_no_vertex_rule(p) ==
    IF (SHADER_TESS_CONTROL_FLAG \notin p.active_shaders) #
       (SHADER_TESS_EVAL_FLAG \notin p.active_shaders)
    THEN XGL_ERROR_BAD_PIPELINE_DATA
    ELSE IF SHADER_COMPUTE_FLAG \in p.active_shaders /\
            p.active_shaders \cap GraphicsStages # {}
    THEN XGL_ERROR_BAD_PIPELINE_DATA
    ELSE IF p.active_shaders \cap
              {SHADER_TESS_CONTROL_FLAG, SHADER_TESS_EVAL_FLAG} # {} /\
            p.topology # XGL_TOPOLOGY_PATCH
    THEN XGL_ERROR_BAD_PIPELINE_DATA
    ELSE IF p.topology = XGL_TOPOLOGY_PATCH /\
            p.active_shaders \
              {SHADER_TESS_CONTROL_FLAG, SHADER_TESS_EVAL_FLAG} # {}
    THEN XGL_ERROR_BAD_PIPELINE_DATA
    ELSE XGL_SUCCESS

\* pipeline_validate with the tessellation-needs-patch test left out
pipeline_validate_no_topology_rule(p) ==
    IF SHADER_VERTEX_FLAG \notin p.active_shaders
    THEN XGL_ERROR_BAD_PIPELINE_DATA
    ELSE IF (SHADER_TESS_CONTROL_FLAG \notin p.active_shaders) #
            (SHADER_TESS_EVAL_FLAG \notin p.active_shaders)
    THEN XGL_ERROR_BAD_PIPELINE_DATA
    ELSE IF SHADER_COMPUTE_FLAG \in p.active_shaders /\
            p.active_shaders \cap GraphicsStages # {}
    THEN XGL_ERROR_BAD_PIPELINE_DATA
    ELSE IF p.topology = XGL_TOPOLOGY_PATCH /\
            p.active_shaders \
              {SHADER_TESS_CONTROL_FLAG, SHADER_TESS_EVAL_FLAG} # {}
    THEN XGL_ERROR_BAD_PIPELINE_DATA
    ELSE XGL_SUCCESS

\* pipeline_validate: five tests in order, the first that fires returns.
pipeline_validate(p) ==
    IF SHADER_VERTEX_FLAG \notin p.active_shaders
    THEN XGL_ERROR_BAD_PIPELINE_DATA
    ELSE IF (SHADER_TESS_CONTROL_FLAG \notin p.active_shaders) #
            (SHADER_TESS_EVAL_FLAG \notin p.active_shaders)
    THEN XGL_ERROR_BAD_PIPELINE_DATA
    ELSE IF SHADER_COMPUTE_FLAG \in p.active_shaders /\
            p.active_shaders \cap GraphicsStages # {}
    THEN XGL_ERROR_BAD_PIPELINE_DATA
    ELSE IF p.active_shaders \cap
              {SHADER_TESS_CONTROL_FLAG, SHADER_TESS_EVAL_FLAG} # {} /\
            p.topology # XGL_TOPOLOGY_PATCH
    THEN XGL_ERROR_BAD_PIPELINE_DATA
    ELSE IF p.topology = XGL_TOPOLOGY_PATCH /\
            p.active_shaders \
              {SHADER_TESS_CONTROL_FLAG, SHADER_TESS_EVAL_FLAG} # {}
    THEN XGL_ERROR_BAD_PIPELINE_DATA
    ELSE XGL_SUCCESS

---------------------------------------------------------------------------
(* GPU generation descriptor *)

\* INTEL_GEN(major.minor), a fixed-point generation number
INTEL_GEN(major, minor) == major * 100 + minor * 10

\* intel_gpu_gen(gpu)
intel_gpu_gen(g) == g.gen

Gens == {INTEL_GEN(6, 0), INTEL_GEN(7, 0), INTEL_GEN(7, 5)}
GtTiers == {1, 2, 3}
Gpus == [gen : Gens, gt : GtTiers]

---------------------------------------------------------------------------
(* URB allocator: shared arithmetic *)

\* entry size of the vertex stage, from the input count alone
urb_vs_entry_size_in_only(vs) == vs.in_count * 16

\* vs_entry_size, in bytes: max(in_count, out_count) * sizeof(float) * 4
urb_vs_entry_size(vs) ==
    (IF vs.in_count >= vs.out_count THEN vs.in_count ELSE vs.out_count) * 16

\* gs_entry_size, in bytes: gs is &pipeline->gs, never null, so this is
\* gs->out_count * sizeof(float) * 4; gs->in_count is not read.
urb_gs_entry_size(gs) == gs.out_count * 16

\* (entry_size + row - 1) / row, and 0 raised to 1
urb_alloc_size(entry_size, row) ==
    LET rows == (entry_size + row - 1) \div row
    IN  IF rows = 0 THEN 1 ELSE rows

\* gen7 vs_alloc_size without the banking remap
urb_vs_alloc_size_gen7_no_remap(entry_size) == urb_alloc_size(entry_size, 64)

\* gen7 vs_alloc_size: 512-bit rows, 5 is remapped to 6
urb_vs_alloc_size_gen7(entry_size) ==
    LET rows == urb_alloc_size(entry_size, 64)
    IN  IF rows = 5 THEN 6 ELSE rows

\* gen7 gs_alloc_size: 512-bit rows, no remap
urb_gs_alloc_size_gen7(entry_size) == urb_alloc_size(entry_size, 64)

\* gen6 entry count without the cap at 256
urb_entry_count_gen6_uncapped(size, alloc_size) ==
    MaskDown((size \div 128) \div alloc_size, 4)

\* gen6 entry count: (size / 128 / alloc_size) & ~3, capped at 256
urb_entry_count_gen6(size, alloc_size) ==
    LET n == MaskDown((size \div 128) \div alloc_size, 4)
    IN  IF n > 256 THEN 256 ELSE n

\* gen6 urb_size, vs_size, gs_size
urb_partition_gen6(g, active_shaders) ==
    LET urb_size == (IF g.gt = 2 THEN 64 ELSE 32) * 1024
    IN  IF SHADER_GEOMETRY_FLAG \in active_shaders
        THEN [urb_size |-> urb_size, vs_size |-> urb_size \div 2,
              gs_size |-> urb_size \div 2]
        ELSE [urb_size |-> urb_size, vs_size |-> urb_size, gs_size |-> 0]

\* gen7 urb_size, urb_offset, vs_size, gs_size
urb_partition_gen7(g, active_shaders) ==
    LET urb_size == (IF g.gt = 3 THEN 512
                     ELSE IF g.gt = 2 THEN 256 ELSE 128) * 1024
        urb_offset == (IF g.gt = 3 THEN 32 ELSE 16) * 1024
    IN  IF SHADER_GEOMETRY_FLAG \in active_shaders
        THEN [urb_size |-> urb_size, urb_offset |-> urb_offset,
              vs_size |-> (urb_size - urb_offset) \div 2,
              gs_size |-> (urb_size - urb_offset) \div 2]
        ELSE [urb_size |-> urb_size, urb_offset |-> urb_offset,
              vs_size |-> urb_size - urb_offset, gs_size |-> 0]

\* gen7 max_vs_entry_count
urb_max_vs_entry_count_gen7(g) ==
    IF intel_gpu_gen(g) >= INTEL_GEN(7, 5)
    THEN (IF g.gt >= 2 THEN 1664 ELSE 640)
    ELSE (IF g.gt = 2 THEN 704 ELSE 512)

\* gen7 max_gs_entry_count
urb_max_gs_entry_count_gen7(g) ==
    IF intel_gpu_gen(g) >= INTEL_GEN(7, 5)
    THEN (IF g.gt >= 2 THEN 640 ELSE 256)
    ELSE (IF g.gt = 2 THEN 320 ELSE 192)

\* gen7 entry count: (size / 64 / alloc_size) & ~7, before the cap
urb_entry_count_gen7(size, alloc_size) ==
    MaskDown((size \div 64) \div alloc_size, 8)

\* the cap left out
urb_cap_uncapped(count, max) == count

\* the cap: if (count >= max) count = max
urb_cap(count, max) == IF count >= max THEN max ELSE count

NoUrb == [variant |-> "none"]

\* pipeline_build_urb_alloc_gen6.  fatal names the assert that failed.
pipeline_build_urb_alloc_gen6(p, g) ==
    LET part == urb_partition_gen6(g, p.active_shaders)
        vs_entry_size == urb_vs_entry_size(p.vs)
        gs_entry_size == urb_gs_entry_size(p.gs)
        vs_alloc_size == urb_alloc_size(vs_entry_size, 128)
        gs_alloc_size == urb_alloc_size(gs_entry_size, 128)
        vs_entry_count == urb_entry_count_gen6(part.vs_size, vs_alloc_size)
        gs_entry_count == urb_entry_count_gen6(part.gs_size, gs_alloc_size)
        words == <<[cmd |-> "3DSTATE_URB", len |-> 3 - 2],
                   [vs_entry_size |-> vs_alloc_size - 1,
                    vs_entry_count |-> vs_entry_count],
                   [gs_entry_count |-> gs_entry_count,
                    gs_entry_size |-> gs_alloc_size - 1]>>
        e == EmitWords(p, words)
        fatal == IF ~(vs_alloc_size <= 5 /\ gs_alloc_size <= 5)
                 THEN "alloc_size"
                 ELSE IF ~(vs_entry_count >= 24) THEN "vs_entry_count"
                 ELSE IF ~e.ok THEN "cmd_ptr"
                 ELSE "none"
    IN  [fatal |-> fatal,
         pipeline |-> IF fatal = "none" THEN e.pipeline ELSE p,
         rsv |-> IF fatal \in {"none", "cmd_ptr"}
                 THEN Reservation(p, 3) ELSE NoReservation,
         urb |-> [variant |-> "gen6", emitted |-> fatal = "none",
                  fatal |-> fatal,
                  urb_size |-> part.urb_size,
                  vs_size |-> part.vs_size, gs_size |-> part.gs_size,
                  vs_entry_size |-> vs_entry_size,
                  gs_entry_size |-> gs_entry_size,
                  vs_alloc_size |-> vs_alloc_size,
                  gs_alloc_size |-> gs_alloc_size,
                  vs_entry_count |-> vs_entry_count,
                  gs_entry_count |-> gs_entry_count]]

\* pipeline_build_urb_alloc_gen7
pipeline_build_urb_alloc_gen7(p, g) ==
    LET part == urb_partition_gen7(g, p.active_shaders)
        vs_entry_size == urb_vs_entry_size(p.vs)
        gs_entry_size == urb_gs_entry_size(p.gs)
        vs_alloc_size == urb_vs_alloc_size_gen7(vs_entry_size)
        gs_alloc_size == urb_gs_alloc_size_gen7(gs_entry_size)
        vs_raw_count == urb_entry_count_gen7(part.vs_size, vs_alloc_size)
        gs_raw_count == urb_entry_count_gen7(part.gs_size, gs_alloc_size)
        vs_entry_count ==
            urb_cap(vs_raw_count, urb_max_vs_entry_count_gen7(g))
        gs_entry_count ==
            urb_cap(gs_raw_count, urb_max_gs_entry_count_gen7(g))
        gs_offset == IF part.gs_size # 0
                     THEN part.urb_offset + part.vs_size
                     ELSE part.urb_offset
        words == <<[cmd |-> "3DSTATE_URB_VS", len |-> 2 - 2],
                   [offset |-> part.urb_offset \div 8192,
                    entry_size |-> vs_alloc_size - 1,
                    entry_count |-> vs_entry_count],
                   [cmd |-> "3DSTATE_URB_GS", len |-> 2 - 2],
                   [offset |-> gs_offset \div 8192,
                    entry_size |-> gs_alloc_size - 1,
                    entry_count |-> gs_entry_count],
                   [cmd |-> "3DSTATE_URB_HS", len |-> 2 - 2],
                   [offset |-> gs_offset \div 8192,
                    entry_size |-> 0, entry_count |-> 0],
                   [cmd |-> "3DSTATE_URB_DS", len |-> 2 - 2],
                   [offset |-> gs_offset \div 8192,
                    entry_size |-> 0, entry_count |-> 0]>>
        e == EmitWords(p, words)
        fatal == IF ~(vs_raw_count >= 32) THEN "vs_entry_count"
                 ELSE IF ~e.ok THEN "cmd_ptr"
                 ELSE "none"
    IN  [fatal |-> fatal,
         pipeline |-> IF fatal = "none" THEN e.pipeline ELSE p,
         rsv |-> IF fatal \in {"none", "cmd_ptr"}
                 THEN Reservation(p, 2 * 4) ELSE NoReservation,
         urb |-> [variant |-> "gen7", emitted |-> fatal = "none",
                  fatal |-> fatal,
                  urb_size |-> part.urb_size,
                  vs_size |-> part.vs_size, gs_size |-> part.gs_size,
                  vs_entry_size |-> vs_entry_size,
                  gs_entry_size |-> gs_entry_size,
                  vs_alloc_size |-> vs_alloc_size,
                  gs_alloc_size |-> gs_alloc_size,
                  vs_entry_count |-> vs_entry_count,
                  gs_entry_count |-> gs_entry_count]]

---------------------------------------------------------------------------
(* Descriptor Assembler *)

\* The shader stages a XGL_PIPELINE_SHADER may name.
XGL_SHADER_STAGE_COMPUTE == "COMPUTE"
ZeroShaderStage == "VERTEX"

\* memset(info, 0, sizeof(*info)): every slot zero-filled.
ZeroShader == [stage |-> ZeroShaderStage, shader |-> 0]

ZeroInfo ==
    [graphics |-> [flags |-> 0],
     vi |-> [bindingCount |-> 0, attributeCount |-> 0,
             pVertexAttributeDescriptions |-> <<>>],
     ia |-> [topology |-> ZeroTopology, disableVertexReuse |-> FALSE,
             provokingVertex |-> ZeroProvokingVertex,
             primitiveRestartEnable |-> FALSE,
             primitiveRestartIndex |-> 0],
     db |-> [format |-> 0],
     cb |-> [alphaToCoverageEnable |-> FALSE, logicOp |-> 0],
     rs |-> [depthClipEnable |-> FALSE, rasterizerDiscardEnable |-> FALSE,
             pointSize |-> 0],
     tess |-> [patchControlPoints |-> 0],
     vs |-> ZeroShader, tcs |-> ZeroShader, tes |-> ZeroShader,
     gs |-> ZeroShader, fs |-> ZeroShader,
     compute |-> [cs |-> ZeroShader]]

\* info_slot whose stage switch has no default: an unknown stage falls
\* into the fragment case
info_slot_stage_default_fragment(header) ==
    CASE header.struct_type = "GRAPHICS_PIPELINE_CREATE_INFO" -> "graphics"
      [] header.struct_type = "PIPELINE_VERTEX_INPUT_CREATE_INFO" -> "vi"
      [] header.struct_type = "PIPELINE_IA_STATE_CREATE_INFO" -> "ia"
      [] header.struct_type = "PIPELINE_DB_STATE_CREATE_INFO" -> "db"
      [] header.struct_type = "PIPELINE_CB_STATE_CREATE_INFO" -> "cb"
      [] header.struct_type = "PIPELINE_RS_STATE_CREATE_INFO" -> "rs"
      [] header.struct_type = "PIPELINE_TESS_STATE_CREATE_INFO" -> "tess"
      [] header.struct_type = "PIPELINE_SHADER_STAGE_CREATE_INFO" ->
            (CASE header.payload.stage = "VERTEX" -> "vs"
               [] header.payload.stage = "TESS_CONTROL" -> "tcs"
               [] header.payload.stage = "TESS_EVALUATION" -> "tes"
               [] header.payload.stage = "GEOMETRY" -> "gs"
               [] header.payload.stage = "FRAGMENT" -> "fs"
               [] OTHER -> "fs")
      [] header.struct_type = "COMPUTE_PIPELINE_CREATE_INFO" -> "compute"
      [] OTHER -> "none"

\* The slot a structure type selects; "none" for an unrecognized type and
\* for a shader stage node whose stage has no slot.
info_slot(header) ==
    CASE header.struct_type = "GRAPHICS_PIPELINE_CREATE_INFO" -> "graphics"
      [] header.struct_type = "PIPELINE_VERTEX_INPUT_CREATE_INFO" -> "vi"
      [] header.struct_type = "PIPELINE_IA_STATE_CREATE_INFO" -> "ia"
      [] header.struct_type = "PIPELINE_DB_STATE_CREATE_INFO" -> "db"
      [] header.struct_type = "PIPELINE_CB_STATE_CREATE_INFO" -> "cb"
      [] header.struct_type = "PIPELINE_RS_STATE_CREATE_INFO" -> "rs"
      [] header.struct_type = "PIPELINE_TESS_STATE_CREATE_INFO" -> "tess"
      [] header.struct_type = "PIPELINE_SHADER_STAGE_CREATE_INFO" ->
            (CASE header.payload.stage = "VERTEX" -> "vs"
               [] header.payload.stage = "TESS_CONTROL" -> "tcs"
               [] header.payload.stage = "TESS_EVALUATION" -> "tes"
               [] header.payload.stage = "GEOMETRY" -> "gs"
               [] header.payload.stage = "FRAGMENT" -> "fs"
               [] OTHER -> "none")
      [] header.struct_type = "COMPUTE_PIPELINE_CREATE_INFO" -> "compute"
      [] OTHER -> "none"

\* The walk that steps over a node without a slot instead of returning
RECURSIVE info_walk_skip_unknown(_, _, _)
info_walk_skip_unknown(inf, headers, i) ==
    IF i > Len(headers)
    THEN [ret |-> XGL_SUCCESS, info |-> inf]
    ELSE LET slot == info_slot(headers[i])
         IN  IF slot = "none"
             THEN info_walk_skip_unknown(inf, headers, i + 1)
             ELSE info_walk_skip_unknown(
                      [inf EXCEPT ![slot] = headers[i].payload],
                      headers, i + 1)

\* The while loop of pipeline_create_info_init from node i on: the first
\* node without a slot returns the error, later nodes are not looked at.
RECURSIVE info_walk(_, _, _)
info_walk(inf, headers, i) ==
    IF i > Len(headers)
    THEN [ret |-> XGL_SUCCESS, info |-> inf]
    ELSE LET slot == info_slot(headers[i])
         IN  IF slot = "none"
             THEN [ret |-> XGL_ERROR_BAD_PIPELINE_DATA, info |-> inf]
             ELSE info_walk([inf EXCEPT ![slot] = headers[i].payload],
                            headers, i + 1)

\* pipeline_create_info_init
pipeline_create_info_init(headers) == info_walk(ZeroInfo, headers, 1)

---------------------------------------------------------------------------
(* Pipeline object *)

NoPipeline == [allocated |-> FALSE, freed |-> FALSE]

ZeroShaderInfo == [in_count |-> 0, out_count |-> 0, uses |-> {}]

\* intel_base_create: a zero-filled struct intel_pipeline.
ZeroPipeline ==
    [allocated |-> TRUE, freed |-> FALSE,
     active_shaders |-> {},
     vs |-> ZeroShaderInfo, gs |-> ZeroShaderInfo,
     vb_count |-> 0,
     cmd_len |-> 0, cmds |-> <<>>,
     wa_flags |-> {},
     topology |-> ZeroTopology, prim_type |-> "0",
     disable_vs_cache |-> FALSE,
     provoking_vertex_tri |-> 0, provoking_vertex_trifan |-> 0,
     provoking_vertex_line |-> 0,
     primitive_restart |-> FALSE, primitive_restart_index |-> 0,
     depthClipEnable |-> FALSE, rasterizerDiscardEnable |-> FALSE,
     pointSize |-> 0,
     db_format |-> 0, cb_state |-> ZeroInfo.cb,
     tess_state |-> ZeroInfo.tess]

---------------------------------------------------------------------------
(* Fixed-function state *)

\* The prim_type of a topology other than patch; "none" is the default
\* branch of the switch.
prim_type_of(topology) ==
    CASE topology = "POINT_LIST" -> "GEN6_3DPRIM_POINTLIST"
      [] topology = "LINE_LIST" -> "GEN6_3DPRIM_LINELIST"
      [] topology = "LINE_STRIP" -> "GEN6_3DPRIM_LINESTRIP"
      [] topology = "TRIANGLE_LIST" -> "GEN6_3DPRIM_TRILIST"
      [] topology = "TRIANGLE_STRIP" -> "GEN6_3DPRIM_TRISTRIP"
      [] topology = "RECT_LIST" -> "GEN6_3DPRIM_RECTLIST"
      [] topology = "QUAD_LIST" -> "GEN6_3DPRIM_QUADLIST"
      [] topology = "QUAD_STRIP" -> "GEN6_3DPRIM_QUADSTRIP"
      [] topology = "LINE_LIST_ADJ" -> "GEN6_3DPRIM_LINELIST_ADJ"
      [] topology = "LINE_STRIP_ADJ" -> "GEN6_3DPRIM_LINESTRIP_ADJ"
      [] topology = "TRIANGLE_LIST_ADJ" -> "GEN6_3DPRIM_TRILIST_ADJ"
      [] topology = "TRIANGLE_STRIP_ADJ" -> "GEN6_3DPRIM_TRISTRIP_ADJ"
      [] OTHER -> "none"

\* GEN7_3DPRIM_PATCHLIST_1 + patchControlPoints - 1
patch_prim_type(n) ==
    "GEN7_3DPRIM_PATCHLIST_" \o
    <<"1", "2", "3", "4", "5", "6", "7", "8", "9", "10", "11", "12", "13",
      "14", "15", "16", "17", "18", "19", "20", "21", "22", "23", "24",
      "25", "26", "27", "28", "29", "30", "31", "32">>[n]

\* pipeline_build_ia: topology, vertex reuse and provoking vertex are
\* written before the switch, so they are written on the error paths too.
pipeline_build_ia(p, inf) ==
    LET first == inf.ia.provokingVertex = "FIRST"
        p1 == [p EXCEPT
                 !.topology = inf.ia.topology,
                 !.disable_vs_cache = inf.ia.disableVertexReuse,
                 !.provoking_vertex_tri = IF first THEN 0 ELSE 2,
                 !.provoking_vertex_trifan = IF first THEN 1 ELSE 2,
                 !.provoking_vertex_line = IF first THEN 0 ELSE 1]
        bad == IF inf.ia.topology = XGL_TOPOLOGY_PATCH
               THEN inf.tess.patchControlPoints = 0 \/
                    inf.tess.patchControlPoints > 32
               ELSE prim_type_of(inf.ia.topology) = "none"
        p2 == [p1 EXCEPT
                 !.prim_type =
                     IF inf.ia.topology = XGL_TOPOLOGY_PATCH
                     THEN patch_prim_type(inf.tess.patchControlPoints)
                     ELSE prim_type_of(inf.ia.topology),
                 !.primitive_restart = inf.ia.primitiveRestartEnable,
                 !.primitive_restart_index =
                     IF inf.ia.primitiveRestartEnable
                     THEN inf.ia.primitiveRestartIndex
                     ELSE p.primitive_restart_index]
    IN  IF bad
        THEN [ret |-> XGL_ERROR_BAD_PIPELINE_DATA, pipeline |-> p1]
        ELSE [ret |-> XGL_SUCCESS, pipeline |-> p2]

\* pipeline_rs_state
pipeline_rs_state(p, rs_state) ==
    [ret |-> XGL_SUCCESS,
     pipeline |-> [p EXCEPT
        !.depthClipEnable = rs_state.depthClipEnable,
        !.rasterizerDiscardEnable = rs_state.rasterizerDiscardEnable,
        !.pointSize = rs_state.pointSize]]

\* The last block of pipeline_build_all.
capture_state(p, inf) ==
    [p EXCEPT !.db_format = inf.db.format, !.cb_state = inf.cb,
              !.tess_state = inf.tess]

---------------------------------------------------------------------------
(* Vertex Element Encoder *)

INTEL_SHADER_USE_VID == "VID"
INTEL_SHADER_USE_IID == "IID"

\* icd_format_get_channel_count, icd_format_is_int and
\* intel_format_translate_color read the description of the format.
icd_format_get_channel_count(format) == format.channels
icd_format_is_int(format) == format.is_int
intel_format_translate_color(g, format) == format.hw

\* comps[] of a declared attribute with the floating-point one for every
\* format
vertex_element_comps_one_fp(format) ==
    LET n == icd_format_get_channel_count(format)
        src(i, dflt) == IF n \in 1..4 /\ i < n
                        THEN "GEN6_VFCOMP_STORE_SRC" ELSE dflt
    IN  <<src(0, "GEN6_VFCOMP_STORE_0"), src(1, "GEN6_VFCOMP_STORE_0"),
          src(2, "GEN6_VFCOMP_STORE_0"), src(3, "GEN6_VFCOMP_STORE_1_FP")>>

\* comps[] of one declared attribute: the switch falls through from the
\* channel count down to component 0.
vertex_element_comps(format) ==
    LET n == icd_format_get_channel_count(format)
        one == IF icd_format_is_int(format)
               THEN "GEN6_VFCOMP_STORE_1_INT" ELSE "GEN6_VFCOMP_STORE_1_FP"
        src(i, dflt) == IF n \in 1..4 /\ i < n
                        THEN "GEN6_VFCOMP_STORE_SRC" ELSE dflt
    IN  <<src(0, "GEN6_VFCOMP_STORE_0"), src(1, "GEN6_VFCOMP_STORE_0"),
          src(2, "GEN6_VFCOMP_STORE_0"), src(3, one)>>

\* comps[] of the synthetic element with the two indices swapped
vertex_element_special_comps_swapped(uses) ==
    <<IF INTEL_SHADER_USE_IID \in uses
      THEN "GEN6_VFCOMP_STORE_IID" ELSE "GEN6_VFCOMP_STORE_0",
      IF INTEL_SHADER_USE_VID \in uses
      THEN "GEN6_VFCOMP_STORE_VID" ELSE "GEN6_VFCOMP_NOSTORE",
      "GEN6_VFCOMP_NOSTORE", "GEN6_VFCOMP_NOSTORE">>

\* comps[] of the synthetic element
vertex_element_special_comps(uses) ==
    <<IF INTEL_SHADER_USE_VID \in uses
      THEN "GEN6_VFCOMP_STORE_VID" ELSE "GEN6_VFCOMP_STORE_0",
      IF INTEL_SHADER_USE_IID \in uses
      THEN "GEN6_VFCOMP_STORE_IID" ELSE "GEN6_VFCOMP_NOSTORE",
      "GEN6_VFCOMP_NOSTORE", "GEN6_VFCOMP_NOSTORE">>

\* The two words of attribute i.
vertex_element_state(g, attr) ==
    <<[vb_index |-> attr.binding, valid |-> TRUE,
       format |-> intel_format_translate_color(g, attr.format),
       offset |-> attr.offsetInBytes],
      [comps |-> vertex_element_comps(attr.format)]>>

RECURSIVE vertex_element_states(_, _, _, _)
vertex_element_states(g, attrs, i, count) ==
    IF i > count THEN <<>>
    ELSE vertex_element_state(g, attrs[i]) \o
         vertex_element_states(g, attrs, i + 1, count)

\* cmd_len that forgets the synthetic element
vertex_elements_cmd_len_no_special(attributeCount, uses) ==
    (1 + 2 * attributeCount) % 256

\* cmd_len of 3DSTATE_VERTEX_ELEMENTS, a uint8_t
vertex_elements_cmd_len(attributeCount, uses) ==
    LET base == (1 + 2 * attributeCount) % 256
    IN  IF uses \cap {INTEL_SHADER_USE_VID, INTEL_SHADER_USE_IID} # {}
        THEN (base + 2) % 256 ELSE base

\* pipeline_build_vertex_elements
pipeline_build_vertex_elements(p, inf, g) ==
    LET count == inf.vi.attributeCount
        attrs == inf.vi.pVertexAttributeDescriptions
        cmd_len == vertex_elements_cmd_len(count, p.vs.uses)
        special ==
            p.vs.uses \cap {INTEL_SHADER_USE_VID, INTEL_SHADER_USE_IID} # {}
        words ==
            <<[cmd |-> "3DSTATE_VERTEX_ELEMENTS", len |-> cmd_len - 2]>> \o
            vertex_element_states(g, attrs, 1, count) \o
            (IF special
             THEN <<[vb_index |-> 0, valid |-> TRUE, format |-> 0,
                     offset |-> 0],
                    [comps |-> vertex_element_special_comps(p.vs.uses)]>>
             ELSE <<>>)
        e == EmitWords(p, words)
        fatal == IF cmd_len = 1 THEN "none"
                 ELSE IF ~e.ok THEN "cmd_ptr"
                 ELSE IF \E i \in 1..count : attrs[i].offsetInBytes > 2047
                 THEN "offset"
                 ELSE "none"
    IN  [fatal |-> fatal,
         pipeline |-> IF cmd_len # 1 /\ fatal = "none" THEN e.pipeline ELSE p,
         rsv |-> IF cmd_len = 1 THEN NoReservation
                 ELSE Reservation(p, cmd_len)]

---------------------------------------------------------------------------
(* Push-Constant Allocator and the fixed-function stubs (gen7) *)

\* the layout with its locals left in bytes, never converted to KiB
push_const_layout_in_bytes(offset0, size0) ==
    [offset |-> offset0, size |-> size0, clamp |-> "none"]

\* The arithmetic of pipeline_build_push_const_alloc_gen7 on its locals
\* offset (bytes) and size (bytes); clamp names the first clamp that fires.
push_const_layout(offset0, size0) ==
    LET end0 == (offset0 + size0) \div 1024
        end == IF end0 > 16 THEN 16 ELSE end0
        off0 == (offset0 + 1023) \div 1024
        off1 == IF off0 > 15 THEN 15 ELSE off0
        off2 == IF off1 > end THEN end ELSE off1
        size1 == end - off2
        size == IF size1 > 15 THEN 15 ELSE size1
    IN  [offset |-> off2, size |-> size,
         clamp |-> IF end0 > 16 THEN "end"
                   ELSE IF off0 > 15 THEN "offset"
                   ELSE IF off1 > end /\ size0 # 0 THEN "offset_end"
                   ELSE IF size1 > 15 THEN "size"
                   ELSE "none"]

\* pipeline_build_push_const_alloc_gen7: offset = 0, size = 8192
pipeline_build_push_const_alloc_gen7(p) ==
    LET l == push_const_layout(0, 8192)
        pcb(name, offset, size) ==
            <<[cmd |-> name, len |-> 2 - 2],
              [offset |-> offset, size |-> size]>>
        words ==
            pcb("3DSTATE_PUSH_CONSTANT_ALLOC_VS", l.offset, l.size) \o
            pcb("3DSTATE_PUSH_CONSTANT_ALLOC_PS", l.size, l.size) \o
            pcb("3DSTATE_PUSH_CONSTANT_ALLOC_HS", 0, 0) \o
            pcb("3DSTATE_PUSH_CONSTANT_ALLOC_DS", 0, 0) \o
            pcb("3DSTATE_PUSH_CONSTANT_ALLOC_GS", 0, 0)
        e == EmitWords(p, words)
        fatal == IF l.clamp # "none" THEN l.clamp
                 ELSE IF ~e.ok THEN "cmd_ptr" ELSE "none"
    IN  [fatal |-> fatal,
         pipeline |-> IF fatal = "none" THEN e.pipeline ELSE p,
         rsv |-> IF fatal \in {"none", "cmd_ptr"}
                 THEN Reservation(p, 2 * 5) ELSE NoReservation]

\* A stub encoder: the header word and cmd_len - 1 zero words.
stub_words(name, cmd_len) ==
    <<[cmd |-> name, len |-> cmd_len - 2]>> \o
    [i \in 1..(cmd_len - 1) |-> [zero |-> 0]]

build_stub(p, name, cmd_len) ==
    LET e == EmitWords(p, stub_words(name, cmd_len))
    IN  [fatal |-> IF e.ok THEN "none" ELSE "cmd_ptr",
         pipeline |-> e.pipeline,
         rsv |-> Reservation(p, cmd_len)]

\* pipeline_build_hs, pipeline_build_te, pipeline_build_ds
pipeline_build_hs(p) == build_stub(p, "3DSTATE_HS", 7)
pipeline_build_te(p) == build_stub(p, "3DSTATE_TE", 4)
pipeline_build_ds(p) == build_stub(p, "3DSTATE_DS", 6)

WaFlagsGen6 ==
    {"INTEL_CMD_WA_GEN6_PRE_DEPTH_STALL_WRITE",
     "INTEL_CMD_WA_GEN6_PRE_COMMAND_SCOREBOARD_STALL"}

WaFlagsGen7 ==
    WaFlagsGen6 \cup
    {"INTEL_CMD_WA_GEN7_PRE_VS_DEPTH_STALL_WRITE",
     "INTEL_CMD_WA_GEN7_POST_COMMAND_CS_STALL",
     "INTEL_CMD_WA_GEN7_POST_COMMAND_DEPTH_STALL"}

---------------------------------------------------------------------------
(* Shader resolution.  pipeline_build_shaders compiles each stage whose   *)
(* descriptor slot holds a shader, marks the stage active and records the *)
(* stage's slot counts and usage flags; it can fail.                      *)

\* The stages whose slot of the descriptor holds a shader.
shader_stages(inf) ==
    {st \in Stages :
        \/ st = SHADER_VERTEX_FLAG /\ inf.vs.shader # 0
        \/ st = SHADER_TESS_CONTROL_FLAG /\ inf.tcs.shader # 0
        \/ st = SHADER_TESS_EVAL_FLAG /\ inf.tes.shader # 0
        \/ st = SHADER_GEOMETRY_FLAG /\ inf.gs.shader # 0
        \/ st = SHADER_FRAGMENT_FLAG /\ inf.fs.shader # 0
        \/ st = SHADER_COMPUTE_FLAG /\ inf.compute.cs.shader # 0}

\* pipeline_build_shaders, on success, with the compiled stage infos
pipeline_build_shaders(p, inf, vs, gs) ==
    LET active == shader_stages(inf)
    IN  [p EXCEPT
           !.active_shaders = active,
           !.vs = IF SHADER_VERTEX_FLAG \in active THEN vs ELSE p.vs,
           !.gs = IF SHADER_GEOMETRY_FLAG \in active THEN gs ELSE p.gs]

---------------------------------------------------------------------------
(* Control flow of graphics_pipeline_create and pipeline_build_all *)

\* graphics_pipeline_create that validates whatever pipeline_build_all
\* returned
after_build_all_always_validate(r) == "validate"

\* graphics_pipeline_create after pipeline_build_all returned r
after_build_all(r) == IF r = XGL_SUCCESS THEN "validate" ELSE "destroy"

\* graphics_pipeline_create after pipeline_create_info_init returned r
after_info_init(r) == IF r # XGL_SUCCESS THEN "returned" ELSE "base_create"

\* pipeline_build_all after pipeline_build_shaders returned r
after_build_shaders(r) ==
    IF r # XGL_SUCCESS THEN after_build_all(r) ELSE "vi_check"

\* the vertex-input count test of pipeline_build_all
vi_count_bad(inf) ==
    inf.vi.bindingCount > INTEL_MAX_VERTEX_BINDING_COUNT \/
    inf.vi.attributeCount > INTEL_MAX_VERTEX_BINDING_COUNT

\* pipeline_build_all after pipeline_build_ia returned r
after_build_ia(r) == IF r = XGL_SUCCESS THEN "rs" ELSE after_build_all(r)

\* pipeline_build_all after pipeline_rs_state returned r
after_rs_state(r) == IF r = XGL_SUCCESS THEN "capture" ELSE after_build_all(r)

\* graphics_pipeline_create after pipeline_validate returned r
after_validate(r) == IF r # XGL_SUCCESS THEN "destroy" ELSE "publish"

\* pipeline_destroy that leaves the object alone
pipeline_destroy_noop(p, n) == [pipeline |-> p, destroyed |-> n]

FreedPipeline == [allocated |-> FALSE, freed |-> TRUE]

\* pipeline_destroy: the shaders are torn down and the object is freed
pipeline_destroy(p, n) == [pipeline |-> FreedPipeline, destroyed |-> n + 1]

---------------------------------------------------------------------------
(* Fence wait (fence.c) *)

XGL_NOT_READY == "XGL_NOT_READY"
XGL_ERROR_UNAVAILABLE == "XGL_ERROR_UNAVAILABLE"

\* 64-bit quantities are written in base 10^9, most significant digit
\* first, as four digits: <<d3, d2, d1, d0>> is d3 * 10^27 + d2 * 10^18 +
\* d1 * 10^9 + d0.
INT64_MAX == <<0, 9, 223372036, 854775807>>
UINT64_MAX == <<0, 18, 446744073, 709551615>>

\* a <= b on two such numbers
DigitsLeq(a, b) ==
    \/ a = b
    \/ \E k \in 1..4 : a[k] < b[k] /\ \A j \in 1..(k - 1) : a[j] = b[j]

\* x / 1000 / 1000 / 1000: three floor divisions by 1000 drop the last
\* base-10^9 digit.
DivBillion(x) == <<0, x[1], x[2], x[3]>>

\* timeout * 1000 * 1000 * 1000 in XGL_UINT64 arithmetic: the product
\* shifts the digits of timeout by one place; a product above UINT64_MAX
\* wraps modulo 2^64 and is kept as "wrapped".
MulBillionU64(x) ==
    LET product == <<x[2], x[3], x[4], 0>>
    IN  IF x[1] = 0 /\ DigitsLeq(product, UINT64_MAX)
        THEN [kind |-> "value", value |-> product]
        ELSE [kind |-> "wrapped"]

\* The conversion of an XGL_UINT64 to int64_t: a value above INT64_MAX does
\* not keep its value.
ToInt64(u) ==
    IF u.kind = "value" /\ DigitsLeq(u.value, INT64_MAX)
    THEN u
    ELSE [kind |-> "wrapped"]

\* int64_t -1, the wait without a timeout
InfiniteNs == [kind |-> "infinite"]

\* ns computed without the range test
wait_timeout_ns_unguarded(timeout) == ToInt64(MulBillionU64(timeout))

\* The ns that intelWaitForFences computes from timeout.
wait_timeout_ns(timeout) ==
    IF DigitsLeq(timeout, DivBillion(INT64_MAX))
    THEN ToInt64(MulBillionU64(timeout))
    ELSE InfiniteNs

\* What intel_bo_wait may return: 0, or an error (-ETIME).
BoWaitErrs == {0, -62}

\* intel_fence_wait, err being what intel_bo_wait returns
intel_fence_wait(fence, timeout_ns, err) ==
    IF ~fence.submitted_bo
    THEN XGL_ERROR_UNAVAILABLE
    ELSE IF err # 0 THEN XGL_NOT_READY ELSE XGL_SUCCESS

\* One iteration of the loop of intelWaitForFences on the locals w, the
\* bo wait returning err.
wait_for_fences_iteration(w, err) ==
    LET fence == w.pFences[w.i + 1]
        ns == wait_timeout_ns(w.timeout)
        r == intel_fence_wait(fence, ns, err)
        waited == [w EXCEPT !.ns = Append(@, ns), !.r = Append(@, r)]
    IN  IF ~w.waitAll /\ r = XGL_SUCCESS
        THEN [waited EXCEPT !.returned = XGL_SUCCESS]
        ELSE [waited EXCEPT !.ret = IF r # XGL_SUCCESS THEN r ELSE @,
                            !.i = @ + 1]

\* No intelWaitForFences call
NoFenceWait ==
    [pFences |-> <<>>, waitAll |-> FALSE, timeout |-> <<0, 0, 0, 0>>,
     i |-> 0, ret |-> XGL_SUCCESS, ns |-> <<>>, r |-> <<>>,
     returned |-> "none"]

---------------------------------------------------------------------------
(* Inputs of the build *)

GraphicsHeader ==
    [struct_type |-> "GRAPHICS_PIPELINE_CREATE_INFO", payload |-> [flags |-> 1]]

ComputeHeader ==
    [struct_type |-> "COMPUTE_PIPELINE_CREATE_INFO",
     payload |-> [cs |-> [stage |-> XGL_SHADER_STAGE_COMPUTE, shader |-> 1]]]

UnknownNode == [struct_type |-> "NOT_A_STRUCTURE_TYPE", payload |-> [flags |-> 1]]

IaNode(t, pv) ==
    [struct_type |-> "PIPELINE_IA_STATE_CREATE_INFO",
     payload |-> [topology |-> t, disableVertexReuse |-> TRUE,
                  provokingVertex |-> pv,
                  primitiveRestartEnable |-> (pv = "FIRST"),
                  primitiveRestartIndex |-> 255]]

TessNode(n) ==
    [struct_type |-> "PIPELINE_TESS_STATE_CREATE_INFO",
     payload |-> [patchControlPoints |-> n]]

RsNode ==
    [struct_type |-> "PIPELINE_RS_STATE_CREATE_INFO",
     payload |-> [depthClipEnable |-> TRUE, rasterizerDiscardEnable |-> TRUE,
                  pointSize |-> 2]]

DbNode ==
    [struct_type |-> "PIPELINE_DB_STATE_CREATE_INFO", payload |-> [format |-> 5]]

CbNode ==
    [struct_type |-> "PIPELINE_CB_STATE_CREATE_INFO",
     payload |-> [alphaToCoverageEnable |-> TRUE, logicOp |-> 3]]

ShaderNode(stage) ==
    [struct_type |-> "PIPELINE_SHADER_STAGE_CREATE_INFO",
     payload |-> [stage |-> stage, shader |-> 1]]

\* Vertex attribute i of a layout: the channel count cycles through 1..4.
Attr(i) ==
    [binding |-> 0, offsetInBytes |-> 16 * (i - 1),
     format |-> [channels |-> 1 + ((i - 1) % 4), is_int |-> (i % 2 = 0),
                 hw |-> i]]

ViNode(bindings, attributes) ==
    [struct_type |-> "PIPELINE_VERTEX_INPUT_CREATE_INFO",
     payload |-> [bindingCount |-> bindings, attributeCount |-> attributes,
                  pVertexAttributeDescriptions |->
                      [i \in 1..attributes |-> Attr(i)]]]

\* seq with node put after its first k nodes
Insert(seq, node, k) ==
    SubSeq(seq, 1, k) \o <<node>> \o SubSeq(seq, k + 1, Len(seq))

\* The input-assembly (and tessellation) fragments of a chain.
IaParts ==
    {<<IaNode(XGL_TOPOLOGY_TRIANGLE_LIST, "LAST")>>,
     <<IaNode(XGL_TOPOLOGY_PATCH, "FIRST"), TessNode(3)>>,
     <<IaNode(XGL_TOPOLOGY_PATCH, "FIRST")>>,
     <<IaNode(XGL_TOPOLOGY_PATCH, "LAST"), TessNode(33)>>,
     <<IaNode(InvalidTopology, "LAST")>>}

\* The shader stage fragments of a chain.
StageParts ==
    {<<ShaderNode("VERTEX"), ShaderNode("FRAGMENT")>>,
     <<ShaderNode("VERTEX"), ShaderNode("GEOMETRY"), ShaderNode("FRAGMENT")>>,
     <<ShaderNode("VERTEX"), ShaderNode("TESS_CONTROL"),
       ShaderNode("TESS_EVALUATION"), ShaderNode("FRAGMENT")>>,
     <<ShaderNode("VERTEX"), ShaderNode("TESS_CONTROL")>>,
     <<ShaderNode("TESS_CONTROL"), ShaderNode("TESS_EVALUATION")>>}

\* The vertex-input fragment: legal counts, and one count too many.
ViParts ==
    {ViNode(0, 0), ViNode(1, 2),
     ViNode(INTEL_MAX_VERTEX_BINDING_COUNT + 1, 0),
     ViNode(0, INTEL_MAX_VERTEX_BINDING_COUNT + 1)}

\* A fragment the assembler or the validator objects to.
ExtraNodes ==
    {ShaderNode(XGL_SHADER_STAGE_COMPUTE), UnknownNode, ComputeHeader}

GoodChains ==
    {<<GraphicsHeader>> \o ia \o <<RsNode, DbNode, CbNode>> \o st \o <<vi>> :
        ia \in IaParts, st \in StageParts, vi \in ViParts}

\* The chain of the spec's scenarios: header, input assembly with a
\* triangle list, vertex shader, fragment shader, empty vertex input.
ScenarioChain ==
    <<GraphicsHeader, IaNode(XGL_TOPOLOGY_TRIANGLE_LIST, "LAST"),
      ShaderNode("VERTEX"), ShaderNode("FRAGMENT"), ViNode(0, 0)>>

ScenarioChains ==
    {ScenarioChain} \cup
    {Insert(ScenarioChain, ShaderNode(XGL_SHADER_STAGE_COMPUTE), k) :
        k \in 0..Len(ScenarioChain)}

BuildChains ==
    GoodChains \cup ScenarioChains \cup
    {Insert(c, x, k) : c \in GoodChains, x \in ExtraNodes, k \in {0, 3}} \cup
    {c \o <<x>> : c \in GoodChains, x \in ExtraNodes}

\* What the shader compiler may report for the vertex stage.
BuildVsInfos ==
    {[in_count |-> i, out_count |-> 4, uses |-> u] :
        i \in {0, 24},
        u \in SUBSET {INTEL_SHADER_USE_VID, INTEL_SHADER_USE_IID}}

BuildGsInfos == {[in_count |-> 4, out_count |-> 8, uses |-> {}]}

---------------------------------------------------------------------------
(* graphics_pipeline_create, step by step *)

Init ==
    /\ gpu \in Gpus
    /\ chain \in BuildChains
    /\ info = ZeroInfo
    /\ pipeline = NoPipeline
    /\ pc = "create"
    /\ ret = "unset"
    /\ pipeline_ret = "unwritten"
    /\ destroyed = 0
    /\ log = <<>>
    /\ urb = NoUrb
    /\ rsv = NoReservation
    /\ fw = NoFenceWait

Step(name) == log' = Append(log, name)

\* ret = pipeline_create_info_init(&info, info_); if (ret != XGL_SUCCESS) return ret;
Assemble ==
    /\ pc = "create"
    /\ LET r == pipeline_create_info_init(chain)
       IN  /\ info' = r.info
           /\ ret' = r.ret
           /\ pc' = after_info_init(r.ret)
    /\ Step("assemble")
    /\ UNCHANGED <<fw, gpu, chain, pipeline, pipeline_ret, destroyed, urb, rsv>>

\* pipeline = intel_base_create(...); if (!pipeline) return XGL_ERROR_OUT_OF_MEMORY;
BaseCreate ==
    /\ pc = "base_create"
    /\ \E ok \in BOOLEAN :
          IF ok
          THEN /\ pipeline' = ZeroPipeline
               /\ pc' = "build_shaders"
               /\ ret' = ret
          ELSE /\ pipeline' = pipeline
               /\ pc' = "returned"
               /\ ret' = XGL_ERROR_OUT_OF_MEMORY
    /\ Step("base_create")
    /\ UNCHANGED <<fw, gpu, chain, info, pipeline_ret, destroyed, urb, rsv>>

\* ret = pipeline_build_shaders(pipeline, info); if (ret != XGL_SUCCESS) return ret;
BuildShaders ==
    /\ pc = "build_shaders"
    /\ \/ \E vs \in BuildVsInfos, gs \in BuildGsInfos :
             /\ pipeline' = pipeline_build_shaders(pipeline, info, vs, gs)
             /\ ret' = XGL_SUCCESS
       \/ /\ pipeline' = pipeline
          /\ ret' = XGL_ERROR_BAD_SHADER
    /\ pc' = after_build_shaders(ret')
    /\ Step("build_shaders")
    /\ UNCHANGED <<fw, gpu, chain, info, pipeline_ret, destroyed, urb, rsv>>

\* the count test, then vb_count and the copy of the binding descriptions
ViCheck ==
    /\ pc = "vi_check"
    /\ IF vi_count_bad(info)
       THEN /\ ret' = XGL_ERROR_BAD_PIPELINE_DATA
            /\ pc' = after_build_all(ret')
            /\ pipeline' = pipeline
       ELSE /\ ret' = ret
            /\ pc' = "vertex_elements"
            /\ pipeline' = [pipeline EXCEPT !.vb_count = info.vi.bindingCount]
    /\ Step("vi_check")
    /\ UNCHANGED <<fw, gpu, chain, info, pipeline_ret, destroyed, urb, rsv>>

\* One void encoder: its words, or the abort of a failed assert.
Encode(name, r, next) ==
    /\ pipeline' = r.pipeline
    /\ rsv' = r.rsv
    /\ pc' = IF r.fatal = "none" THEN next ELSE "aborted"
    /\ Step(name)

VertexElements ==
    /\ pc = "vertex_elements"
    /\ Encode("vertex_elements",
              pipeline_build_vertex_elements(pipeline, info, gpu), "urb_alloc")
    /\ UNCHANGED <<fw, gpu, chain, info, ret, pipeline_ret, destroyed, urb>>

UrbAllocGen7 ==
    /\ pc = "urb_alloc"
    /\ intel_gpu_gen(gpu) >= INTEL_GEN(7, 0)
    /\ LET r == pipeline_build_urb_alloc_gen7(pipeline, gpu)
       IN  /\ Encode("urb_alloc", r, "push_const_alloc")
           /\ urb' = r.urb
    /\ UNCHANGED <<fw, gpu, chain, info, ret, pipeline_ret, destroyed>>

UrbAllocGen6 ==
    /\ pc = "urb_alloc"
    /\ ~(intel_gpu_gen(gpu) >= INTEL_GEN(7, 0))
    /\ LET r == pipeline_build_urb_alloc_gen6(pipeline, gpu)
       IN  /\ Encode("urb_alloc", r, "wa_flags")
           /\ urb' = r.urb
    /\ UNCHANGED <<fw, gpu, chain, info, ret, pipeline_ret, destroyed>>

PushConstAlloc ==
    /\ pc = "push_const_alloc"
    /\ Encode("push_const_alloc",
              pipeline_build_push_const_alloc_gen7(pipeline), "gs")
    /\ UNCHANGED <<fw, gpu, chain, info, ret, pipeline_ret, destroyed, urb>>

\* pipeline_build_gs writes nothing
BuildGs ==
    /\ pc = "gs"
    /\ pc' = "hs"
    /\ Step("gs")
    /\ UNCHANGED <<fw, gpu, chain, info, pipeline, ret, pipeline_ret, destroyed,
                   urb, rsv>>

BuildHs ==
    /\ pc = "hs"
    /\ Encode("hs", pipeline_build_hs(pipeline), "te")
    /\ UNCHANGED <<fw, gpu, chain, info, ret, pipeline_ret, destroyed, urb>>

BuildTe ==
    /\ pc = "te"
    /\ Encode("te", pipeline_build_te(pipeline), "ds")
    /\ UNCHANGED <<fw, gpu, chain, info, ret, pipeline_ret, destroyed, urb>>

BuildDs ==
    /\ pc = "ds"
    /\ Encode("ds", pipeline_build_ds(pipeline), "wa_flags")
    /\ UNCHANGED <<fw, gpu, chain, info, ret, pipeline_ret, destroyed, urb>>

SetWaFlags ==
    /\ pc = "wa_flags"
    /\ pipeline' = [pipeline EXCEPT !.wa_flags =
                       IF intel_gpu_gen(gpu) >= INTEL_GEN(7, 0)
                       THEN WaFlagsGen7 ELSE WaFlagsGen6]
    /\ pc' = "ia"
    /\ Step("wa_flags")
    /\ UNCHANGED <<fw, gpu, chain, info, ret, pipeline_ret, destroyed, urb, rsv>>

BuildIa ==
    /\ pc = "ia"
    /\ LET r == pipeline_build_ia(pipeline, info)
       IN  /\ pipeline' = r.pipeline
           /\ ret' = r.ret
           /\ pc' = after_build_ia(r.ret)
    /\ Step("ia")
    /\ UNCHANGED <<fw, gpu, chain, info, pipeline_ret, destroyed, urb, rsv>>

RsState ==
    /\ pc = "rs"
    /\ LET r == pipeline_rs_state(pipeline, info.rs)
       IN  /\ pipeline' = r.pipeline
           /\ ret' = r.ret
           /\ pc' = after_rs_state(r.ret)
    /\ Step("rs")
    /\ UNCHANGED <<fw, gpu, chain, info, pipeline_ret, destroyed, urb, rsv>>

Capture ==
    /\ pc = "capture"
    /\ pipeline' = capture_state(pipeline, info)
    /\ pc' = after_build_all(ret)
    /\ Step("capture")
    /\ UNCHANGED <<fw, gpu, chain, info, ret, pipeline_ret, destroyed, urb, rsv>>

\* ret = pipeline_validate(pipeline);
Validate ==
    /\ pc = "validate"
    /\ ret' = pipeline_validate(pipeline)
    /\ pc' = after_validate(ret')
    /\ Step("validate")
    /\ UNCHANGED <<fw, gpu, chain, info, pipeline, pipeline_ret, destroyed, urb,
                   rsv>>

\* pipeline_destroy(&pipeline->obj); return ret;
Destroy ==
    /\ pc = "destroy"
    /\ LET r == pipeline_destroy(pipeline, destroyed)
       IN  /\ pipeline' = r.pipeline
           /\ destroyed' = r.destroyed
    /\ pc' = "returned"
    /\ Step("destroy")
    /\ UNCHANGED <<fw, gpu, chain, info, ret, pipeline_ret, urb, rsv>>

\* *pipeline_ret = pipeline; return XGL_SUCCESS;
Publish ==
    /\ pc = "publish"
    /\ pipeline_ret' = "pipeline"
    /\ ret' = XGL_SUCCESS
    /\ pc' = "returned"
    /\ Step("publish")
    /\ UNCHANGED <<fw, gpu, chain, info, pipeline, destroyed, urb, rsv>>

Next ==
    \/ Assemble
    \/ BaseCreate
    \/ BuildShaders
    \/ ViCheck
    \/ VertexElements
    \/ UrbAllocGen6
    \/ UrbAllocGen7
    \/ PushConstAlloc
    \/ BuildGs
    \/ BuildHs
    \/ BuildTe
    \/ BuildDs
    \/ SetWaFlags
    \/ BuildIa
    \/ RsState
    \/ Capture
    \/ Validate
    \/ Destroy
    \/ Publish

Spec == Init /\ [][Next]_vars

---------------------------------------------------------------------------
(* The validator on its own: every active-stage set and every topology a  *)
(* pipeline can hold when graphics_pipeline_create reaches the validator. *)

InitValidate ==
    /\ gpu \in {[gen |-> INTEL_GEN(6, 0), gt |-> 2]}
    /\ chain = <<>>
    /\ info = ZeroInfo
    /\ pipeline \in {[ZeroPipeline EXCEPT !.active_shaders = a,
                                          !.topology = t] :
                        a \in SUBSET Stages, t \in Topologies}
    /\ pc = "validate"
    /\ ret = XGL_SUCCESS
    /\ pipeline_ret = "unwritten"
    /\ destroyed = 0
    /\ log = <<>>
    /\ urb = NoUrb
    /\ rsv = NoReservation
    /\ fw = NoFenceWait

NextValidate == Validate

SpecValidate == InitValidate /\ [][NextValidate]_vars

---------------------------------------------------------------------------
(* The URB allocators on their own: every GPU, with and without the       *)
(* geometry stage, over a range of slot counts.                           *)

MaxSlots == 44

\* Slot counts: every count up to MaxSlots, and two counts around the
\* point where the gen7 vertex entry count falls below its minimum.
SlotCounts == 0..MaxSlots \cup {112, 113}

OtherSlotCounts == {0, 24}

UrbShaderInfos ==
    [in_count : SlotCounts, out_count : OtherSlotCounts, uses : {{}}]

UrbGsInfos ==
    [in_count : OtherSlotCounts, out_count : SlotCounts, uses : {{}}]

InitUrb ==
    /\ gpu \in Gpus
    /\ chain = <<>>
    /\ info = ZeroInfo
    /\ pipeline \in
          {[ZeroPipeline EXCEPT
               !.active_shaders = {SHADER_VERTEX_FLAG, SHADER_FRAGMENT_FLAG},
               !.vs = vs] : vs \in UrbShaderInfos}
          \cup
          {[ZeroPipeline EXCEPT
               !.active_shaders = {SHADER_VERTEX_FLAG, SHADER_GEOMETRY_FLAG,
                                   SHADER_FRAGMENT_FLAG},
               !.vs = vs, !.gs = gs] :
               vs \in UrbShaderInfos, gs \in UrbGsInfos}
    /\ pc = "urb_alloc"
    /\ ret = XGL_SUCCESS
    /\ pipeline_ret = "unwritten"
    /\ destroyed = 0
    /\ log = <<>>
    /\ urb = NoUrb
    /\ rsv = NoReservation
    /\ fw = NoFenceWait

NextUrb == UrbAllocGen6 \/ UrbAllocGen7

SpecUrb == InitUrb /\ [][NextUrb]_vars

---------------------------------------------------------------------------
(* The command buffer sink under any sequence of reservations, together   *)
(* with the builds.                                                       *)

MaxReserve == 10

InitSink ==
    /\ gpu \in {[gen |-> INTEL_GEN(6, 0), gt |-> 2]}
    /\ chain = <<>>
    /\ info = ZeroInfo
    /\ pipeline = ZeroPipeline
    /\ pc = "sink"
    /\ ret = XGL_SUCCESS
    /\ pipeline_ret = "unwritten"
    /\ destroyed = 0
    /\ log = <<>>
    /\ urb = NoUrb
    /\ rsv = NoReservation
    /\ fw = NoFenceWait

\* One call of pipeline_cmd_ptr(pipeline, n).
Reserve ==
    /\ pc = "sink"
    /\ \E n \in 1..MaxReserve :
          LET r == pipeline_cmd_ptr(pipeline, n)
          IN  /\ pipeline' = r.pipeline
              /\ rsv' = Reservation(pipeline, n)
              /\ pc' = IF r.ok THEN "sink" ELSE "aborted"
    /\ UNCHANGED <<fw, gpu, chain, info, ret, pipeline_ret, destroyed, log, urb>>

SpecSink == (Init \/ InitSink) /\ [][Next \/ Reserve]_vars

---------------------------------------------------------------------------
(* The vertex element encoder on its own: every layout of up to MaxAttrs  *)
(* attributes over every format description, a layout of the largest     *)
(* count that pipeline_build_all lets through, a layout with an offset   *)
(* the encoder refuses, and every use of the two special values.         *)

MaxAttrs == 2

\* Format descriptions: 0 to 4 channels (0 for a format without colour
\* channels), integer or not; hw is the hardware format number.
VeFormats ==
    {[channels |-> c, is_int |-> b, hw |-> 2 * c + (IF b THEN 1 ELSE 0)] :
        c \in 0..4, b \in BOOLEAN}

VeLayouts == UNION {[1..n -> VeFormats] : n \in 0..MaxAttrs}

\* Attribute i of a layout reads binding i - 1 at offset 16 * (i - 1).
VeAttrs(fs) ==
    [i \in 1..Len(fs) |->
        [binding |-> i - 1, offsetInBytes |-> 16 * (i - 1), format |-> fs[i]]]

VeOffsetTooLarge ==
    [bindingCount |-> 1, attributeCount |-> 1,
     pVertexAttributeDescriptions |->
         <<[binding |-> 0, offsetInBytes |-> 2048, format |-> Attr(1).format]>>]

VeViInfos ==
    {[bindingCount |-> Len(fs), attributeCount |-> Len(fs),
      pVertexAttributeDescriptions |-> VeAttrs(fs)] : fs \in VeLayouts}
    \cup {ViNode(1, INTEL_MAX_VERTEX_BINDING_COUNT).payload, VeOffsetTooLarge}

InitVe ==
    /\ gpu \in [gen : Gens, gt : {1}]
    /\ chain = <<>>
    /\ info \in {[ZeroInfo EXCEPT !.vi = vi] : vi \in VeViInfos}
    /\ pipeline \in
          {[ZeroPipeline EXCEPT !.active_shaders = {SHADER_VERTEX_FLAG},
                                !.vs.uses = u,
                                !.vb_count = info.vi.bindingCount] :
              u \in SUBSET {INTEL_SHADER_USE_VID, INTEL_SHADER_USE_IID}}
    /\ pc = "vertex_elements"
    /\ ret = XGL_SUCCESS
    /\ pipeline_ret = "unwritten"
    /\ destroyed = 0
    /\ log = <<>>
    /\ urb = NoUrb
    /\ rsv = NoReservation
    /\ fw = NoFenceWait

NextVe == VertexElements

SpecVe == InitVe /\ [][NextVe]_vars

---------------------------------------------------------------------------
(* The descriptor assembler on its own: every chain of up to MaxChain     *)
(* nodes, in any order, with repeated, unrecognized and compute nodes.   *)

MaxChain == 3

ChainNodes ==
    {GraphicsHeader, ComputeHeader, UnknownNode,
     IaNode(XGL_TOPOLOGY_TRIANGLE_LIST, "LAST"),
     IaNode(XGL_TOPOLOGY_PATCH, "FIRST"),
     TessNode(3), RsNode, DbNode, CbNode, ViNode(1, 2),
     ShaderNode("VERTEX"), ShaderNode("TESS_CONTROL"),
     ShaderNode("TESS_EVALUATION"), ShaderNode("GEOMETRY"),
     ShaderNode("FRAGMENT"), ShaderNode(XGL_SHADER_STAGE_COMPUTE)}

AnyChains == UNION {[1..n -> ChainNodes] : n \in 0..MaxChain}

InitAssemble ==
    /\ gpu \in {[gen |-> INTEL_GEN(7, 0), gt |-> 1]}
    /\ chain \in AnyChains
    /\ info = ZeroInfo
    /\ pipeline = NoPipeline
    /\ pc = "create"
    /\ ret = "unset"
    /\ pipeline_ret = "unwritten"
    /\ destroyed = 0
    /\ log = <<>>
    /\ urb = NoUrb
    /\ rsv = NoReservation
    /\ fw = NoFenceWait

NextAssemble == Assemble

SpecAssemble == InitAssemble /\ [][NextAssemble]_vars

---------------------------------------------------------------------------
(* intelWaitForFences: up to MaxFences fences, submitted or not, either   *)
(* waitAll, and timeouts around the two limits of the multiplication.    *)

MaxFences == 2

\* Timeouts: 0, 1, a value of one full digit, the largest timeout whose
\* product fits an int64_t and its two neighbours, the largest whose
\* product fits an XGL_UINT64 and its successor, a value with a small
\* leading digit that wraps, and the largest XGL_UINT64.
Timeouts ==
    {<<0, 0, 0, 0>>, <<0, 0, 0, 1>>, <<0, 0, 0, 999999999>>,
     <<0, 0, 9, 223372035>>, <<0, 0, 9, 223372036>>, <<0, 0, 9, 223372037>>,
     <<0, 0, 18, 446744073>>, <<0, 0, 18, 446744074>>,
     <<0, 1, 0, 5>>, UINT64_MAX}

FenceLists == UNION {[1..n -> [submitted_bo : BOOLEAN]] : n \in 0..MaxFences}

InitFence ==
    /\ gpu \in {[gen |-> INTEL_GEN(7, 0), gt |-> 1]}
    /\ chain = <<>>
    /\ info = ZeroInfo
    /\ pipeline = NoPipeline
    /\ pc = "fence_loop"
    /\ ret = "unset"
    /\ pipeline_ret = "unwritten"
    /\ destroyed = 0
    /\ log = <<>>
    /\ urb = NoUrb
    /\ rsv = NoReservation
    /\ fw \in {[NoFenceWait EXCEPT !.pFences = f, !.waitAll = a,
                                   !.timeout = t] :
                  f \in FenceLists, a \in BOOLEAN, t \in Timeouts}

\* One iteration: i < fenceCount
FenceWait ==
    /\ pc = "fence_loop"
    /\ fw.i < Len(fw.pFences)
    /\ \E err \in BoWaitErrs :
          /\ fw' = wait_for_fences_iteration(fw, err)
          /\ pc' = IF fw'.returned # "none" THEN "fence_returned"
                   ELSE "fence_loop"
    /\ UNCHANGED <<gpu, chain, info, pipeline, ret, pipeline_ret, destroyed,
                   log, urb, rsv>>

\* The loop is over: return ret
FenceReturn ==
    /\ pc = "fence_loop"
    /\ ~(fw.i < Len(fw.pFences))
    /\ fw' = [fw EXCEPT !.returned = fw.ret]
    /\ pc' = "fence_returned"
    /\ UNCHANGED <<gpu, chain, info, pipeline, ret, pipeline_ret, destroyed,
                   log, urb, rsv>>

NextFence == FenceWait \/ FenceReturn

SpecFence == InitFence /\ [][NextFence]_vars

---------------------------------------------------------------------------
(* Properties *)

InLog(name) == \E i \in 1..Len(log) : log[i] = name

LastStep == IF log = <<>> THEN "none" ELSE log[Len(log)]

Failed == ret \notin {"unset", XGL_SUCCESS}

TessStages == {SHADER_TESS_CONTROL_FLAG, SHADER_TESS_EVAL_FLAG}

\* The five rules of the validator, as the specification states them.
RulesHold(active, topology) ==
    /\ SHADER_VERTEX_FLAG \in active
    /\ (SHADER_TESS_CONTROL_FLAG \in active) <=>
       (SHADER_TESS_EVAL_FLAG \in active)
    /\ ~(SHADER_COMPUTE_FLAG \in active /\
         \E st \in GraphicsStages : st \in active)
    /\ (\E st \in TessStages : st \in active) =>
          topology = XGL_TOPOLOGY_PATCH
    /\ topology = XGL_TOPOLOGY_PATCH =>
          \A st \in active : st \in TessStages

ValidatorAnswer ==
    LastStep = "validate" =>
        ret = IF RulesHold(pipeline.active_shaders, pipeline.topology)
              THEN XGL_SUCCESS ELSE XGL_ERROR_BAD_PIPELINE_DATA

\* C1: pipeline_validate returns success exactly when the five rules hold
\* of (active stages, topology), the malformed-pipeline-data error in
\* every other case, and the step leaves the pipeline object as it was.
C1_ValidatorRules ==
    []ValidatorAnswer /\ [][pc = "validate" => pipeline' = pipeline]_vars

C1_Witness ==
    /\ LastStep = "validate"
    /\ ret = XGL_SUCCESS
    /\ pipeline.active_shaders =
          {SHADER_VERTEX_FLAG, SHADER_GEOMETRY_FLAG, SHADER_FRAGMENT_FLAG}
    /\ pipeline.topology = XGL_TOPOLOGY_TRIANGLE_LIST

\* C2 as stated: with the patch-list topology the validator accepts
\* exactly the active-stage sets that are subsets of {tess-control,
\* tess-eval}.
C2_PatchIffTessOnly ==
    (LastStep = "validate" /\ pipeline.topology = XGL_TOPOLOGY_PATCH) =>
        ((ret = XGL_SUCCESS) <=> (pipeline.active_shaders \subseteq TessStages))

\* C2, amended: with the patch-list topology the validator accepts no
\* active-stage set at all.  A subset of {tess-control, tess-eval} lacks
\* the vertex stage and fails the first rule; any other set fails the
\* last one.
C2_PatchNeverAccepted ==
    (LastStep = "validate" /\ pipeline.topology = XGL_TOPOLOGY_PATCH) =>
        ret = XGL_ERROR_BAD_PIPELINE_DATA

C2_Witness ==
    /\ LastStep = "validate"
    /\ pipeline.topology = XGL_TOPOLOGY_PATCH
    /\ pipeline.active_shaders = TessStages
    /\ ret = XGL_ERROR_BAD_PIPELINE_DATA

\* C3: cmd_len never exceeds INTEL_PSO_CMD_ENTRIES, in the builds on
\* either generation and under any sequence of reservations; a
\* reservation that does not fit aborts and leaves cmd_len where it was.
C3_CmdLenBounded ==
    /\ pipeline.allocated => pipeline.cmd_len <= INTEL_PSO_CMD_ENTRIES
    /\ ~rsv.ok => (pc = "aborted" /\ pipeline.cmd_len = rsv.old)
    /\ (rsv.ok /\ rsv.n > 0 /\ pipeline.allocated) =>
          pipeline.cmd_len = rsv.old + rsv.n

C3_Witness ==
    /\ ~rsv.ok
    /\ pc = "aborted"
    /\ rsv.old + rsv.n > INTEL_PSO_CMD_ENTRIES
    /\ pipeline.cmd_len = rsv.old

\* C4 as stated: a reservation succeeds whenever old length + word count
\* is at most the capacity, the sum equal to the capacity included, and
\* is fatal exactly when the sum exceeds the capacity.
C4_ReserveUpToCapacity ==
    rsv.n > 0 =>
        /\ rsv.ok <=> (rsv.old + rsv.n <= INTEL_PSO_CMD_ENTRIES)
        /\ rsv.ok => rsv.ptr = rsv.old

\* C5: the output handle is written only by a call that returns
\* success; a call that returns an error leaves it unwritten and has
\* destroyed the pipeline object exactly once if it had been allocated,
\* and not at all otherwise.
C5_HandleOnlyOnSuccess ==
    /\ destroyed <= 1
    /\ pipeline_ret # "unwritten" => (pc = "returned" /\ ret = XGL_SUCCESS)
    /\ (pc = "returned" /\ ret = XGL_SUCCESS) =>
          /\ pipeline_ret = "pipeline"
          /\ pipeline.allocated
          /\ destroyed = 0
    /\ (pc = "returned" /\ ret # XGL_SUCCESS) =>
          /\ pipeline_ret = "unwritten"
          /\ IF InLog("build_shaders")
             THEN destroyed = 1 /\ pipeline = FreedPipeline
             ELSE destroyed = 0 /\ pipeline = NoPipeline

C5_Witness ==
    /\ pc = "returned"
    /\ LastStep = "destroy"
    /\ InLog("validate")
    /\ ret = XGL_ERROR_BAD_PIPELINE_DATA
    /\ destroyed = 1
    /\ pipeline_ret = "unwritten"

\* The step of the build an entry of the log belongs to: 1 assembly,
\* 2 shader resolution, 3 vertex-input count check, 4 encoding, 5
\* fixed-state capture, 6 stage validation; 0 for the allocation, the
\* destruction and the publication, which are no steps of the build.
BuildStep(name) ==
    CASE name = "assemble" -> 1
      [] name = "build_shaders" -> 2
      [] name = "vi_check" -> 3
      [] name \in {"vertex_elements", "urb_alloc", "push_const_alloc", "gs",
                   "hs", "te", "ds", "wa_flags"} -> 4
      [] name \in {"ia", "rs", "capture"} -> 5
      [] name = "validate" -> 6
      [] OTHER -> 0

\* The build steps of the log, in the order they ran.
BuildSteps(l) == SelectSeq(l, LAMBDA name : BuildStep(name) > 0)

\* The log runs through the steps in their fixed order, leaving none out.
InFixedOrder ==
    LET b == BuildSteps(log)
    IN  /\ b # <<>> => BuildStep(b[1]) = 1
        /\ \A i \in 1..(Len(b) - 1) :
              BuildStep(b[i + 1]) \in {BuildStep(b[i]), BuildStep(b[i]) + 1}

\* Once a step has returned an error: no further build step runs, no
\* word is reserved, nothing is captured, and the error stays the result.
FailFast ==
    Failed =>
        /\ ret' = ret
        /\ BuildSteps(log') = BuildSteps(log)
        /\ pipeline'.allocated => pipeline' = pipeline
        /\ rsv' = rsv
        /\ pipeline_ret' = pipeline_ret

\* C6: the build runs assembly, shader resolution, vertex-input count
\* check, encoding, fixed-state capture and stage validation in this
\* order; after the first error no later step runs and that error is the
\* one returned.
C6_FixedOrderFailFast == []InFixedOrder /\ [][FailFast]_vars

C6_Witness ==
    /\ pc = "returned"
    /\ ret = XGL_ERROR_BAD_PIPELINE_DATA
    /\ InLog("ia")
    /\ ~InLog("rs")
    /\ ~InLog("validate")
    /\ LastStep = "destroy"

IsComputeStageNode(node) ==
    /\ node.struct_type = "PIPELINE_SHADER_STAGE_CREATE_INFO"
    /\ node.payload.stage = XGL_SHADER_STAGE_COMPUTE

\* C7: the scenario chain with a compute-shader stage fragment put
\* anywhere in it fails with the malformed-pipeline-data error, and no
\* pipeline object exists and no word has been reserved at any point.
C7_ComputeStageRejected ==
    (chain \in ScenarioChains /\
     \E i \in 1..Len(chain) : IsComputeStageNode(chain[i])) =>
        /\ pc \in {"create", "returned"}
        /\ pc = "returned" => ret = XGL_ERROR_BAD_PIPELINE_DATA
        /\ pipeline = NoPipeline
        /\ rsv = NoReservation
        /\ pipeline_ret = "unwritten"

C7_Witness ==
    /\ chain = Insert(ScenarioChain, ShaderNode(XGL_SHADER_STAGE_COMPUTE),
                      Len(ScenarioChain))
    /\ pc = "returned"
    /\ ret = XGL_ERROR_BAD_PIPELINE_DATA
    /\ pipeline = NoPipeline

\* The words of the last reservation, as they stand in cmds.
Emitted(i) == pipeline.cmds[rsv.ptr + i]

MultipleInRange(n, m, lo, hi) == n % m = 0 /\ lo <= n /\ n <= hi

\* C8: on gen6 the URB is 64 KiB for GT 2 and 32 KiB otherwise; with the
\* geometry stage active the vertex and geometry partitions get half
\* each, otherwise the vertex partition gets all of it and the geometry
\* partition nothing; and whenever 3DSTATE_URB is emitted its vertex
\* entry count is a multiple of 4 in [24, 256] and its geometry entry
\* count a multiple of 4 in [0, 256].
C8_Gen6UrbPartitionAndCounts ==
    urb.variant = "gen6" =>
        /\ urb.urb_size = IF gpu.gt = 2 THEN 64 * 1024 ELSE 32 * 1024
        /\ IF SHADER_GEOMETRY_FLAG \in pipeline.active_shaders
           THEN urb.vs_size * 2 = urb.urb_size /\ urb.gs_size = urb.vs_size
           ELSE urb.vs_size = urb.urb_size /\ urb.gs_size = 0
        /\ urb.emitted =>
              /\ Emitted(1).cmd = "3DSTATE_URB"
              /\ MultipleInRange(Emitted(2).vs_entry_count, 4, 24, 256)
              /\ MultipleInRange(Emitted(3).gs_entry_count, 4, 0, 256)

C8_Witness ==
    /\ urb.variant = "gen6"
    /\ urb.emitted
    /\ gpu.gt = 2
    /\ SHADER_GEOMETRY_FLAG \in pipeline.active_shaders
    /\ urb.vs_size = 32 * 1024
    /\ urb.gs_size = 32 * 1024
    /\ Emitted(2).vs_entry_count = 256
    /\ Emitted(3).gs_entry_count = 84

\* C9 as stated: in both variants the entry size of the vertex stage and
\* of the geometry stage is max(input slots, output slots) * 16 bytes.
C9_EntrySizeMaxBothStages ==
    urb.variant # "none" =>
        /\ urb.vs_entry_size =
              Max(pipeline.vs.in_count, pipeline.vs.out_count) * 16
        /\ urb.gs_entry_size =
              Max(pipeline.gs.in_count, pipeline.gs.out_count) * 16

\* C9, amended: in both variants the entry size of the vertex stage is
\* max(input slots, output slots) * 16 bytes, and the entry size of the
\* geometry stage is its output slot count * 16 bytes, whatever its
\* input slot count.
C9_EntrySizeVsMaxGsOut ==
    urb.variant # "none" =>
        /\ urb.vs_entry_size =
              Max(pipeline.vs.in_count, pipeline.vs.out_count) * 16
        /\ urb.gs_entry_size = pipeline.gs.out_count * 16

C9_Witness ==
    /\ urb.variant = "gen7"
    /\ SHADER_GEOMETRY_FLAG \in pipeline.active_shaders
    /\ pipeline.gs.in_count = 24
    /\ pipeline.gs.out_count = 8
    /\ urb.gs_entry_size = 128
    /\ pipeline.vs.in_count = 0
    /\ pipeline.vs.out_count = 24
    /\ urb.vs_entry_size = 384

\* entry_size / row, rounded up
RowsUp(entry_size, row) ==
    IF entry_size % row = 0 THEN entry_size \div row
    ELSE entry_size \div row + 1

\* The row counts an emitted URB command encodes (the fields hold the
\* row count minus one).
EncodedVsRows ==
    IF urb.variant = "gen6" THEN Emitted(2).vs_entry_size + 1
    ELSE Emitted(2).entry_size + 1

EncodedGsRows ==
    IF urb.variant = "gen6" THEN Emitted(3).gs_entry_size + 1
    ELSE Emitted(4).entry_size + 1

\* C10 as stated: every row count encoded into an emitted URB command is
\* the rounded-up quotient clamped into 1..5, hence in 1..5 on gen6, and
\* with 5 remapped to 6 on gen7, hence in {1, 2, 3, 4, 6} there.
C10_RowsClampedRemapped ==
    urb.variant # "none" /\ urb.emitted =>
        IF urb.variant = "gen6"
        THEN EncodedVsRows \in 1..5 /\ EncodedGsRows \in 1..5
        ELSE EncodedVsRows \in {1, 2, 3, 4, 6} /\
             EncodedGsRows \in {1, 2, 3, 4, 6}

\* C10, amended: the row count of a stage is its entry size divided by
\* the row size (128 bytes on gen6, 64 on gen7) rounded up, with 0 raised
\* to 1 and no upper clamp.  On gen6 a row count above 5 is a fatal
\* internal error, so every row count of an emitted command is in 1..5.
\* On gen7 only the vertex row count is remapped from 5 to 6: an emitted
\* vertex row count is at least 1 and never 5, an emitted geometry row
\* count is at least 1 and may be 5 or more.
C10_RowsRoundedUp ==
    urb.variant # "none" =>
        LET row == IF urb.variant = "gen6" THEN 128 ELSE 64
            vs_rows == Max(1, RowsUp(urb.vs_entry_size, row))
            gs_rows == Max(1, RowsUp(urb.gs_entry_size, row))
        IN  /\ urb.gs_alloc_size = gs_rows
            /\ urb.vs_alloc_size =
                  IF urb.variant = "gen7" /\ vs_rows = 5 THEN 6 ELSE vs_rows
            /\ urb.variant = "gen6" =>
                  (urb.emitted => (vs_rows <= 5 /\ gs_rows <= 5))
            /\ urb.emitted =>
                  /\ EncodedVsRows = urb.vs_alloc_size
                  /\ EncodedGsRows = urb.gs_alloc_size
                  /\ EncodedVsRows >= 1
                  /\ EncodedGsRows >= 1
                  /\ urb.variant = "gen6" =>
                        (EncodedVsRows \in 1..5 /\ EncodedGsRows \in 1..5)
                  /\ urb.variant = "gen7" => EncodedVsRows # 5

C10_Witness ==
    /\ urb.variant = "gen7"
    /\ urb.emitted
    /\ urb.vs_entry_size = 320
    /\ EncodedVsRows = 6
    /\ urb.gs_entry_size = 320
    /\ EncodedGsRows = 5

\* The tier maximum of the gen7 vertex entry count, as C11 states it.
VsTierMaximum ==
    IF gpu.gen = INTEL_GEN(7, 5)
    THEN (IF gpu.gt >= 2 THEN 1664 ELSE 640)
    ELSE (IF gpu.gt = 2 THEN 704 ELSE 512)

\* floor(partition bytes / (64 * rows)) masked down to a multiple of 8
VsCountBeforeCap ==
    LET q == urb.vs_size \div (64 * urb.vs_alloc_size)
    IN  q - (q % 8)

\* C11: on gen7, for every GT tier, revision 7 or 7.5, with or without
\* the geometry stage and for all slot counts, the vertex entry count is
\* floor(partition bytes / (64 * row count)) masked down to a multiple of
\* 8 and then capped at the tier maximum; a count below 32 is fatal and
\* nothing is emitted; every emitted vertex entry count is a multiple of 8
\* in [32, tier maximum]; and the vertex, geometry, hull and domain
\* commands are emitted as 8 consecutive words.
C11_Gen7VsEntryCount ==
    urb.variant = "gen7" =>
        /\ urb.vs_entry_count =
              (IF VsCountBeforeCap > VsTierMaximum
               THEN VsTierMaximum ELSE VsCountBeforeCap)
        /\ (urb.vs_entry_count < 32) <=> (urb.fatal = "vs_entry_count")
        /\ urb.fatal = "vs_entry_count" =>
              /\ ~urb.emitted
              /\ pc = "aborted"
              /\ pipeline.cmd_len = 0
              /\ pipeline.cmds = <<>>
        /\ urb.emitted =>
              /\ rsv.n = 8
              /\ pipeline.cmd_len = rsv.ptr + 8
              /\ Len(pipeline.cmds) = rsv.ptr + 8
              /\ Emitted(1).cmd = "3DSTATE_URB_VS"
              /\ Emitted(3).cmd = "3DSTATE_URB_GS"
              /\ Emitted(5).cmd = "3DSTATE_URB_HS"
              /\ Emitted(7).cmd = "3DSTATE_URB_DS"
              /\ Emitted(2).entry_count = urb.vs_entry_count
              /\ MultipleInRange(Emitted(2).entry_count, 8, 32, VsTierMaximum)

\* A vertex entry count cut down to the tier maximum is emitted, on the
\* revision and tier with the smallest maximum.
C11_Witness ==
    /\ urb.variant = "gen7"
    /\ urb.emitted
    /\ gpu.gen = INTEL_GEN(7, 0)
    /\ gpu.gt = 1
    /\ VsCountBeforeCap > 512
    /\ Emitted(2).entry_count = 512
    /\ rsv.n = 8

\* The vertex entry count falls below 32 and the allocator stops.
C11_WitnessFatal ==
    /\ urb.variant = "gen7"
    /\ urb.fatal = "vs_entry_count"
    /\ urb.vs_entry_count = 24

\* The offset and size fields (KiB) of the i-th push-constant command of
\* the last reservation.
PcbCmd(i) == Emitted(2 * i - 1).cmd
PcbOffset(i) == Emitted(2 * i).offset
PcbSize(i) == Emitted(2 * i).size

\* C12: in every build the push-constant allocator emits exactly five
\* two-word commands (10 words) for the vertex, fragment, hull, domain and
\* geometry stages: the vertex stage gets offset 0 KiB and size 8 KiB, the
\* fragment stage offset 8 KiB and size 8 KiB (inside the 16 KiB window
\* and clear of the vertex region), the other three offset 0 and size 0;
\* and no clamp (end > 16, offset > 15, offset > end, size > 15) fires.
C12_PushConstLayout ==
    LastStep = "push_const_alloc" =>
        /\ pc = "gs"
        /\ push_const_layout(0, 8192).clamp = "none"
        /\ rsv.ok
        /\ rsv.n = 10
        /\ pipeline.cmd_len = rsv.old + 10
        /\ Len(pipeline.cmds) = rsv.ptr + 10
        /\ PcbCmd(1) = "3DSTATE_PUSH_CONSTANT_ALLOC_VS"
        /\ PcbOffset(1) = 0 /\ PcbSize(1) = 8
        /\ PcbCmd(2) = "3DSTATE_PUSH_CONSTANT_ALLOC_PS"
        /\ PcbOffset(2) = 8 /\ PcbSize(2) = 8
        /\ PcbOffset(2) + PcbSize(2) <= 16
        /\ PcbOffset(2) >= PcbOffset(1) + PcbSize(1)
        /\ PcbCmd(3) = "3DSTATE_PUSH_CONSTANT_ALLOC_HS"
        /\ PcbCmd(4) = "3DSTATE_PUSH_CONSTANT_ALLOC_DS"
        /\ PcbCmd(5) = "3DSTATE_PUSH_CONSTANT_ALLOC_GS"
        /\ \A i \in 3..5 : PcbOffset(i) = 0 /\ PcbSize(i) = 0
        /\ \A i \in 1..5 : Emitted(2 * i - 1).len = 0

\* The allocator has run behind a vertex element command and the URB
\* commands, on the newest revision.
C12_Witness ==
    /\ LastStep = "push_const_alloc"
    /\ gpu.gen = INTEL_GEN(7, 5)
    /\ rsv.old > 8
    /\ PcbOffset(2) = 8
    /\ PcbSize(2) = 8

\* The vertex element encoder has run to its end.
VeDone == LastStep = "vertex_elements" /\ pc # "aborted"

VeCount == info.vi.attributeCount
VeAttr(i) == info.vi.pVertexAttributeDescriptions[i]
VeSpecial ==
    pipeline.vs.uses \cap {INTEL_SHADER_USE_VID, INTEL_SHADER_USE_IID} # {}

\* Component j (0..3) of the record of attribute i, and of the synthetic
\* element, in the command the encoder wrote.
VeComp(i, j) == Emitted(2 * i + 1).comps[j + 1]
VeSpecialComp(j) == Emitted(2 * VeCount + 3).comps[j + 1]

\* C13: for every declared attribute whose format has n channels, n in
\* 1..4, component i of its record is "store source" for i < n, and for
\* i >= n it is "store constant 0" for i in 0..2 and "store constant 1"
\* for i = 3, the integer one exactly when the format is an integer
\* format and the floating-point one otherwise.
C13_AttributeComponents ==
    VeDone =>
        \A i \in 1..VeCount :
            LET n == VeAttr(i).format.channels
            IN  n \in 1..4 =>
                  \A j \in 0..3 :
                      VeComp(i, j) =
                         IF j < n THEN "GEN6_VFCOMP_STORE_SRC"
                         ELSE IF j < 3 THEN "GEN6_VFCOMP_STORE_0"
                         ELSE IF VeAttr(i).format.is_int
                         THEN "GEN6_VFCOMP_STORE_1_INT"
                         ELSE "GEN6_VFCOMP_STORE_1_FP"

\* A one-channel integer attribute behind a four-channel float attribute.
C13_Witness ==
    /\ VeDone
    /\ VeCount = 2
    /\ VeAttr(1).format.channels = 4
    /\ ~VeAttr(1).format.is_int
    /\ VeAttr(2).format.channels = 1
    /\ VeAttr(2).format.is_int
    /\ VeComp(1, 3) = "GEN6_VFCOMP_STORE_SRC"
    /\ VeComp(2, 0) = "GEN6_VFCOMP_STORE_SRC"
    /\ VeComp(2, 1) = "GEN6_VFCOMP_STORE_0"
    /\ VeComp(2, 3) = "GEN6_VFCOMP_STORE_1_INT"

\* The commands hold exactly one synthetic element, behind the records of
\* the declared attributes.
VeOneSynthetic ==
    /\ rsv.n = 1 + 2 * VeCount + 2
    /\ Len(pipeline.cmds) = rsv.ptr + rsv.n
    /\ \A i \in 1..VeCount : Emitted(2 * i).vb_index = VeAttr(i).binding

\* C14 as stated: when the vertex stage uses the vertex index or the
\* instance index, one synthetic element follows the attribute records;
\* its component 0 is "store vertex index" if the vertex index is used
\* and "no store" otherwise, its component 1 is "store instance index" if
\* the instance index is used and "no store" otherwise, and components 2
\* and 3 are "no store".
C14_SyntheticNoStore ==
    VeDone /\ VeSpecial =>
        /\ VeOneSynthetic
        /\ VeSpecialComp(0) =
              IF INTEL_SHADER_USE_VID \in pipeline.vs.uses
              THEN "GEN6_VFCOMP_STORE_VID" ELSE "GEN6_VFCOMP_NOSTORE"
        /\ VeSpecialComp(1) =
              IF INTEL_SHADER_USE_IID \in pipeline.vs.uses
              THEN "GEN6_VFCOMP_STORE_IID" ELSE "GEN6_VFCOMP_NOSTORE"
        /\ VeSpecialComp(2) = "GEN6_VFCOMP_NOSTORE"
        /\ VeSpecialComp(3) = "GEN6_VFCOMP_NOSTORE"

\* C14, amended: when the vertex stage uses the vertex index or the
\* instance index, one synthetic element follows the attribute records;
\* its component 0 is "store vertex index" if the vertex index is used
\* and "store constant 0" otherwise, its component 1 is "store instance
\* index" if the instance index is used and "no store" otherwise, and
\* components 2 and 3 are "no store".
C14_SyntheticStoreZero ==
    VeDone /\ VeSpecial =>
        /\ VeOneSynthetic
        /\ VeSpecialComp(0) =
              IF INTEL_SHADER_USE_VID \in pipeline.vs.uses
              THEN "GEN6_VFCOMP_STORE_VID" ELSE "GEN6_VFCOMP_STORE_0"
        /\ VeSpecialComp(1) =
              IF INTEL_SHADER_USE_IID \in pipeline.vs.uses
              THEN "GEN6_VFCOMP_STORE_IID" ELSE "GEN6_VFCOMP_NOSTORE"
        /\ VeSpecialComp(2) = "GEN6_VFCOMP_NOSTORE"
        /\ VeSpecialComp(3) = "GEN6_VFCOMP_NOSTORE"

\* Only the instance index is used, behind two declared attributes.
C14_Witness ==
    /\ VeDone
    /\ pipeline.vs.uses = {INTEL_SHADER_USE_IID}
    /\ VeCount = 2
    /\ VeSpecialComp(0) = "GEN6_VFCOMP_STORE_0"
    /\ VeSpecialComp(1) = "GEN6_VFCOMP_STORE_IID"

\* C15: with zero attributes and neither special value used the encoder
\* reserves no words and cmd_len is unchanged; otherwise it reserves
\* exactly 1 + 2 * (attribute count + (1 if a special value is used, else
\* 0)) words, the length field of the header matches, and the records of
\* the attributes follow the header in declaration order, two words each,
\* with the synthetic element behind them if there is one.
C15_VertexElementsWords ==
    LastStep = "vertex_elements" =>
        LET k == VeCount + (IF VeSpecial THEN 1 ELSE 0)
        IN  IF k = 0
            THEN /\ rsv = NoReservation
                 /\ pipeline.cmd_len = 0
                 /\ pipeline.cmds = <<>>
                 /\ pc # "aborted"
            ELSE /\ rsv.n = 1 + 2 * k
                 /\ rsv.ok
                 /\ pc # "aborted" =>
                       /\ pipeline.cmd_len = rsv.old + 1 + 2 * k
                       /\ Len(pipeline.cmds) = rsv.ptr + 1 + 2 * k
                       /\ Emitted(1).cmd = "3DSTATE_VERTEX_ELEMENTS"
                       /\ Emitted(1).len = 1 + 2 * k - 2
                       /\ \A i \in 1..VeCount :
                             /\ Emitted(2 * i).valid
                             /\ Emitted(2 * i).vb_index = VeAttr(i).binding
                             /\ Emitted(2 * i).offset = VeAttr(i).offsetInBytes
                             /\ Emitted(2 * i).format = VeAttr(i).format.hw
                             /\ Emitted(2 * i + 1).comps =
                                   vertex_element_comps(VeAttr(i).format)
                       /\ VeSpecial =>
                             /\ Emitted(2 * VeCount + 2).valid
                             /\ Emitted(2 * VeCount + 3).comps[3] =
                                   "GEN6_VFCOMP_NOSTORE"

\* The largest layout pipeline_build_all lets through, with the synthetic
\* element behind it.
C15_Witness ==
    /\ VeDone
    /\ VeCount = INTEL_MAX_VERTEX_BINDING_COUNT
    /\ VeSpecial
    /\ rsv.n = 69
    /\ Emitted(1).len = 67

\* Nothing to configure: no attribute, no special value, no command.
C15_WitnessEmpty ==
    /\ VeDone
    /\ VeCount = 0
    /\ ~VeSpecial
    /\ pipeline.cmd_len = 0

\* The slot a node selects by its type tag (and, for a shader stage node,
\* by its stage), as the descriptor is laid out; "none" when the node is
\* not recognized.
TagSlots ==
    [GRAPHICS_PIPELINE_CREATE_INFO |-> "graphics",
     PIPELINE_VERTEX_INPUT_CREATE_INFO |-> "vi",
     PIPELINE_IA_STATE_CREATE_INFO |-> "ia",
     PIPELINE_DB_STATE_CREATE_INFO |-> "db",
     PIPELINE_CB_STATE_CREATE_INFO |-> "cb",
     PIPELINE_RS_STATE_CREATE_INFO |-> "rs",
     PIPELINE_TESS_STATE_CREATE_INFO |-> "tess",
     COMPUTE_PIPELINE_CREATE_INFO |-> "compute"]

StageSlots ==
    [VERTEX |-> "vs", TESS_CONTROL |-> "tcs", TESS_EVALUATION |-> "tes",
     GEOMETRY |-> "gs", FRAGMENT |-> "fs"]

SlotOfNode(node) ==
    IF node.struct_type = "PIPELINE_SHADER_STAGE_CREATE_INFO"
    THEN (IF node.payload.stage \in DOMAIN StageSlots
          THEN StageSlots[node.payload.stage] ELSE "none")
    ELSE IF node.struct_type \in DOMAIN TagSlots
    THEN TagSlots[node.struct_type] ELSE "none"

\* The positions of the chain's nodes that are not recognized.
BadNodes == {i \in 1..Len(chain) : SlotOfNode(chain[i]) = "none"}

\* The descriptor holds the nodes 1..n of the chain: each slot has the
\* payload of the last of them that selects it, or is zero.
HoldsNodes(n) ==
    \A slot \in DOMAIN ZeroInfo :
        LET at == {i \in 1..n : SlotOfNode(chain[i]) = slot}
        IN  IF at = {} THEN info[slot] = ZeroInfo[slot]
            ELSE info[slot] =
                    chain[CHOOSE i \in at : \A j \in at : j <= i].payload

\* C16: for every chain the assembler returns the malformed-pipeline-data
\* error as soon as it reaches a node with an unrecognized type tag or a
\* shader stage node whose stage is none of vertex, tess-control,
\* tess-eval, geometry, fragment, and no later node is processed;
\* otherwise it returns success with the payload of each recognized node
\* in the slot its tag (and stage) selects and every other slot zero.
C16_AssemblerWalk ==
    LastStep = "assemble" =>
        IF BadNodes # {}
        THEN /\ ret = XGL_ERROR_BAD_PIPELINE_DATA
             /\ pc = "returned"
             /\ pipeline = NoPipeline
             /\ HoldsNodes((CHOOSE i \in BadNodes :
                                \A j \in BadNodes : i <= j) - 1)
        ELSE /\ ret = XGL_SUCCESS
             /\ pc = "base_create"
             /\ HoldsNodes(Len(chain))

\* An unrecognized node between two recognized ones: the first is in the
\* descriptor, the one behind the unrecognized node is not.
C16_Witness ==
    /\ LastStep = "assemble"
    /\ chain = <<RsNode, UnknownNode, DbNode>>
    /\ ret = XGL_ERROR_BAD_PIPELINE_DATA
    /\ info.rs = RsNode.payload
    /\ info.db = ZeroInfo.db

\* A chain of recognized nodes, one slot selected twice.
C16_WitnessSuccess ==
    /\ LastStep = "assemble"
    /\ chain = <<IaNode(XGL_TOPOLOGY_TRIANGLE_LIST, "LAST"),
                 ShaderNode("GEOMETRY"),
                 IaNode(XGL_TOPOLOGY_PATCH, "FIRST")>>
    /\ ret = XGL_SUCCESS
    /\ info.ia.topology = XGL_TOPOLOGY_PATCH
    /\ info.gs = ShaderNode("GEOMETRY").payload
    /\ info.vs = ZeroShader

\* timeout * 10^9 as a number, and whether it fits a signed 64-bit integer
TimeoutProduct == <<fw.timeout[2], fw.timeout[3], fw.timeout[4], 0>>
ProductFitsInt64 == fw.timeout[1] = 0 /\ DigitsLeq(TimeoutProduct, INT64_MAX)

\* The nanosecond timeout of every wait made so far is the product when
\* the product fits, and the infinite value otherwise.
NsAsStated ==
    \A k \in 1..Len(fw.ns) :
        /\ fw.ns[k] = IF ProductFitsInt64
                      THEN [kind |-> "value", value |-> TimeoutProduct]
                      ELSE InfiniteNs
        /\ fw.ns[k].kind # "wrapped"

\* The call returns success when waitAll is false and some wait
\* succeeded, or waitAll is true and the wait of every fence succeeded.
SuccessAsStated ==
    pc = "fence_returned" =>
        /\ (~fw.waitAll /\ \E k \in 1..Len(fw.r) : fw.r[k] = XGL_SUCCESS)
              => fw.returned = XGL_SUCCESS
        /\ (fw.waitAll /\ Len(fw.r) = Len(fw.pFences)
                       /\ \A k \in 1..Len(fw.r) : fw.r[k] = XGL_SUCCESS)
              => fw.returned = XGL_SUCCESS

C17_Witness ==
    /\ pc = "fence_returned"
    /\ ~fw.waitAll
    /\ fw.timeout = <<0, 0, 9, 223372036>>
    /\ fw.ns = <<[kind |-> "value", value |-> <<0, 9, 223372036, 0>>],
                 [kind |-> "value", value |-> <<0, 9, 223372036, 0>>]>>
    /\ fw.r = <<XGL_NOT_READY, XGL_SUCCESS>>
    /\ fw.returned = XGL_SUCCESS

===========================================================================
